---- MODULE Spec2Model ----
(***************************************************************************)
(* Model of RedBookCards' pagination engine (src/src/utils/paginator.py):  *)
(* SmartPaginator.paginate, its helpers, and SmartPaginator.optimize_pages,*)
(* called one after the other (paginate, then optimize_pages on            *)
(* paginate's result), and of the image exporter                           *)
(* (src/src/utils/exporter.py).                                            *)
(*                                                                         *)
(* An HTML string is modelled as the sequence of its top-level nodes.  A   *)
(* node is a record [tag, n, id]: tag is the element name ("text" is a     *)
(* bare text node, "nl" the newline that _elements_to_html puts between    *)
(* blocks, "pagebreak" the marker div), n is the size that the height      *)
(* estimate reads (characters of Latin text for p and text, lines for      *)
(* pre), id is the position of the node in the document, so that two       *)
(* nodes of the same shape stay distinguishable in the output.             *)
(***************************************************************************)
EXTENDS Integers, Sequences, FiniteSets, Bags, TLC

\* ----- bounds of the model ---------------------------------------------
MaxLen == 4          \* longest document, in top-level nodes
ShortChars == 40     \* characters of the short paragraph
LongChars == 1400    \* characters of the long paragraph and of the bare text
CodeLines == 80      \* lines of the code block (taller than every page)
MidChars == 700      \* characters of the paragraph of middle height
MaxPages == 3        \* longest page list handed to optimize_pages directly
MaxPlainLen == 6     \* longest document without pagebreaks and headings
HalfLines == 24      \* lines of the code block of which two fit on a page
MaxTop == 1          \* most top-level nodes of a tree document
MaxKids == 2         \* most children of a node of a tree document
MaxParaKids == 4     \* most children of the paragraph given alone

\* ----- program constants -----------------------------------------------
ELEMENT_HEIGHTS ==
  [h1 |-> 90, h2 |-> 70, h3 |-> 60, h4 |-> 50, h5 |-> 45, h6 |-> 40,
   p_base |-> 25, p_line |-> 28, li |-> 35, code_block |-> 40,
   code_line |-> 24, blockquote |-> 60, blockquote_line |-> 28,
   table_header |-> 45, table_row |-> 40, hr |-> 35, margin_bottom |-> 20]

PAGE_SIZES ==
  [small  |-> [width |-> 720,  height |-> 960,  padding_top |-> 35,
               padding_bottom |-> 50, padding_sides |-> 30],
   medium |-> [width |-> 1080, height |-> 1440, padding_top |-> 45,
               padding_bottom |-> 70, padding_sides |-> 40],
   large  |-> [width |-> 1440, height |-> 1920, padding_top |-> 55,
               padding_bottom |-> 90, padding_sides |-> 50]]

CHAR_WIDTH == 16
CHAR_WIDTH_EN == 9

\* The names a caller may pass to set_page_size; "huge" is not a preset.
SizeNames == {"small", "medium", "large", "huge"}

Max(a, b) == IF a >= b THEN a ELSE b

\* ----- set_page_size ---------------------------------------------------
\* A plausible slip in EffectiveSize: an unknown name falls back to the
\* first preset of the table instead of "medium".
EffectiveSize_FirstPreset(size) ==
  IF size \in DOMAIN PAGE_SIZES THEN size ELSE "small"

\* The name set_page_size stores: an unknown name becomes "medium".
EffectiveSize(size) == IF size \in DOMAIN PAGE_SIZES THEN size ELSE "medium"

ContentWidth(size) ==
  PAGE_SIZES[size].width - (PAGE_SIZES[size].padding_sides * 2)

ContentHeight(size) ==
  PAGE_SIZES[size].height - PAGE_SIZES[size].padding_top
    - PAGE_SIZES[size].padding_bottom

\* A plausible slip in HeadingKeepWith: the space kept below a heading is
\* not adjusted to the preset.
HeadingKeepWith_Fixed(size) == 150

HeadingKeepWith(size) ==
  IF size = "small" THEN 100 ELSE IF size = "large" THEN 200 ELSE 150

\* ----- height estimation -----------------------------------------------
\* _calculate_text_height for a text of `chars` characters.
CalculateTextHeight(chars, cw) ==
  IF chars = 0 THEN 0
  ELSE LET chars_per_line == cw \div CHAR_WIDTH
           estimated_lines ==
             Max(1, (chars + chars_per_line - 1) \div chars_per_line)
       IN ELEMENT_HEIGHTS.p_base + estimated_lines * ELEMENT_HEIGHTS.p_line

\* _calculate_paragraph_height for a text of `chars` Latin characters (no
\* CJK character): avg_char_width is CHAR_WIDTH_EN, and
\* int(len / (content_width / avg_char_width)) is (chars * 9) \div cw.
CalculateParagraphHeight(chars, cw) ==
  IF chars = 0 THEN ELEMENT_HEIGHTS.p_base
  ELSE LET lines == Max(1, ((chars * CHAR_WIDTH_EN) \div cw) + 1)
       IN ELEMENT_HEIGHTS.p_base + lines * ELEMENT_HEIGHTS.p_line
            + ELEMENT_HEIGHTS.margin_bottom

\* ----- nodes and HTML strings ------------------------------------------
NL == [tag |-> "nl", n |-> 0, id |-> 0]

\* The content of a pagebreak element: the empty string.
Empty == [tag |-> "", n |-> 0, id |-> 0]

\* The shape "nl" is a top-level text node of whitespace only.
Shapes ==
  { [tag |-> "nl",        n |-> 0],
    [tag |-> "pagebreak", n |-> 0],
    [tag |-> "h1",        n |-> 0],
    [tag |-> "p",         n |-> ShortChars],
    [tag |-> "p",         n |-> LongChars],
    [tag |-> "text",      n |-> LongChars],
    [tag |-> "pre",       n |-> CodeLines] }

NodeAt(shape, k) == [tag |-> shape.tag, n |-> shape.n, id |-> k]

\* The documents: every sequence of at most MaxLen shapes, each node
\* carrying its position as id.
Documents ==
  UNION { { [k \in 1..len |-> NodeAt(f[k], k)] : f \in [1..len -> Shapes] }
          : len \in 0..MaxLen }

\* _is_pagebreak_marker
IsPagebreakMarker(node) == node.tag = "pagebreak"

\* _flatten_parse of one top-level node: the sequence of PageElements it
\* yields (none for whitespace).  content is the node re-emitted; a bare
\* text node is re-wrapped in <p>...</p>.
FlattenParse(node, cw) ==
  IF node.tag = "nl" THEN << >>
  ELSE IF IsPagebreakMarker(node)
    THEN << [type |-> "pagebreak", content |-> Empty, height |-> 0] >>
  ELSE IF node.tag = "text"
    THEN << [type |-> "text",
             content |-> [tag |-> "p", n |-> node.n, id |-> node.id],
             height |-> CalculateTextHeight(node.n, cw)] >>
  ELSE IF node.tag = "h1"
    THEN << [type |-> "heading", content |-> node,
             height |-> ELEMENT_HEIGHTS.h1 + ELEMENT_HEIGHTS.margin_bottom] >>
  ELSE IF node.tag = "p"
    THEN << [type |-> "paragraph", content |-> node,
             height |-> CalculateParagraphHeight(node.n, cw)] >>
  ELSE \* pre
       << [type |-> "code", content |-> node,
           height |-> ELEMENT_HEIGHTS.code_block
                        + node.n * ELEMENT_HEIGHTS.code_line
                        + ELEMENT_HEIGHTS.margin_bottom] >>

RECURSIVE ParseHtmlToElements(_, _)
ParseHtmlToElements(html, cw) ==
  IF html = << >> THEN << >>
  ELSE FlattenParse(Head(html), cw) \o ParseHtmlToElements(Tail(html), cw)

\* _elements_to_html: the contents of the non-pagebreak elements joined
\* with "\n".
RECURSIVE ElementsToHtml(_)
ElementsToHtml(els) ==
  IF els = << >> THEN << >>
  ELSE IF Head(els).type = "pagebreak" THEN ElementsToHtml(Tail(els))
  ELSE LET rest == ElementsToHtml(Tail(els))
       IN IF rest = << >> THEN << Head(els).content >>
          ELSE << Head(els).content, NL >> \o rest

RECURSIVE SumHeights(_)
SumHeights(els) ==
  IF els = << >> THEN 0 ELSE Head(els).height + SumHeights(Tail(els))

\* A plausible slip in IsBlank: only the empty string counts, a page of
\* whitespace does not.
IsBlank_OnlyEmpty(page) == page = << >>

\* str.strip() of a page is empty: the page holds nothing but newlines.
IsBlank(page) == \A k \in 1..Len(page) : page[k].tag = "nl"


\* ----- state -------------------------------------------------------------
VARIABLES
  size_arg,                \* history: the name last passed to set_page_size
  stale_marks,             \* history: paginate was entered with forced marks
                           \* left by an earlier call
  page_size_name,          \* SmartPaginator.page_size_name
  forced_break_pages,      \* SmartPaginator.forced_break_pages (0-based)
  html_content,            \* the argument of paginate
  pc,                      \* where the pagination is
  elements,                \* paginate: elements
  i,                       \* paginate: i (1-based here)
  pages,                   \* paginate: pages, then the argument of optimize_pages
  current_page_elements,   \* paginate: current_page_elements
  current_height,          \* paginate: current_height
  consecutive_breaks,      \* paginate: consecutive_breaks
  optimized,               \* optimize_pages: optimized
  opt_i,                   \* optimize_pages: i (0-based, as in forced_break_pages)
  merged_from,             \* history: for each page of optimized, the indices
                           \* (0-based) of the pages of `pages` it was built from
  current_pages,           \* what optimize_pages returned
  pages_to_export,         \* ImageExporter.pages_to_export
  current_export_index,    \* ImageExporter.current_export_index
  is_exporting,            \* ImageExporter._is_exporting
  timers,                  \* the single-shot timers not yet fired (a bag)
  web_view,                \* what was last loaded into the web view
  signals,                 \* history: the signals emitted since the last
                           \* call of export_pages, in order
  runs,                    \* history: the calls of export_pages so far
  pdf_loop,                \* export_as_pdf is inside its event loop
  calls,                   \* history: the calls of cancel_export and of
                           \* export_as_pdf so far
  errors                   \* history: the exceptions raised (OSError of
                           \* mkdir in export_pages; TypeError and
                           \* AttributeError of the widgets' constructors)

vars == << size_arg, stale_marks, page_size_name, forced_break_pages,
           html_content, pc, elements, i,
           pages, current_page_elements, current_height, consecutive_breaks,
           optimized, opt_i, merged_from, current_pages,
           pages_to_export, current_export_index, is_exporting, timers,
           web_view, signals, runs, pdf_loop, calls, errors >>

paginate_vars == << elements, i, pages, current_page_elements, current_height,
                    consecutive_breaks >>
optimize_vars == << optimized, opt_i, merged_from, current_pages >>
export_vars == << pages_to_export, current_export_index, is_exporting, timers,
                 web_view, signals, runs, pdf_loop, calls, errors >>

\* What the web view shows before anything was loaded into it.
Blank == [content |-> << >>, page_num |-> 0, total_pages |-> 0]

\* ImageExporter.__init__(web_view).
ExporterConstructed ==
  /\ pages_to_export = << >>
  /\ current_export_index = 0
  /\ is_exporting = FALSE
  /\ timers = EmptyBag
  /\ web_view = Blank
  /\ signals = << >>
  /\ runs = 0
  /\ pdf_loop = FALSE
  /\ calls = 0
  /\ errors = << >>

content_width == ContentWidth(page_size_name)
content_height == ContentHeight(page_size_name)
HEADING_KEEP_WITH == HeadingKeepWith(page_size_name)

\* SmartPaginator.__init__(page_size): set_page_size(page_size), no forced
\* mark.
Init ==
  /\ size_arg \in SizeNames
  /\ stale_marks = FALSE
  /\ page_size_name = EffectiveSize(size_arg)
  /\ forced_break_pages = {}
  /\ html_content = << >>
  /\ pc = "idle"
  /\ elements = << >>
  /\ i = 1
  /\ pages = << >>
  /\ current_page_elements = << >>
  /\ current_height = 0
  /\ consecutive_breaks = 0
  /\ optimized = << >>
  /\ opt_i = 0
  /\ merged_from = << >>
  /\ current_pages = << >>
  /\ ExporterConstructed

\* set_page_size(size), called while no document is being paginated.
SetPageSize(size) ==
  /\ pc \in {"idle", "done"}
  /\ size_arg' = size
  /\ page_size_name' = EffectiveSize(size)
  /\ UNCHANGED << stale_marks, forced_break_pages, html_content, pc >>
  /\ UNCHANGED paginate_vars
  /\ UNCHANGED optimize_vars
  /\ UNCHANGED export_vars

\* ----- paginate ----------------------------------------------------------
\* A plausible slip in ResetForced: the marks of the previous call are kept.
ResetForced_Kept(forced) == forced

\* self.forced_break_pages = set() at the start of paginate.
ResetForced(forced) == {}

\* paginate up to the loop: reset the forced marks, parse, return at once
\* when nothing was parsed.
PaginateCall(doc) ==
  /\ html_content' = doc
  /\ stale_marks' = (forced_break_pages # {})
  /\ forced_break_pages' = ResetForced(forced_break_pages)
  /\ elements' = ParseHtmlToElements(doc, content_width)
  /\ IF elements' = << >>
       THEN /\ pages' = IF doc # << >> THEN << doc >> ELSE << >>
            /\ pc' = "paginated"
       ELSE /\ pages' = << >>
            /\ pc' = "paginate"
  /\ i' = 1
  /\ current_page_elements' = << >>
  /\ current_height' = 0
  /\ consecutive_breaks' = 0
  /\ UNCHANGED << size_arg, page_size_name >>
  /\ UNCHANGED optimize_vars
  /\ UNCHANGED export_vars

\* paginate(doc) on a paginator just constructed, up to the loop.
PaginateBegin(doc) ==
  /\ pc = "idle"
  /\ PaginateCall(doc)

\* paginate(doc) on a paginator that is not inside a call: a first or a
\* later call.
PaginateAgain(doc) ==
  /\ pc \in {"idle", "done"}
  /\ PaginateCall(doc)

\* A plausible slip in BreakSeals: a pagebreak met with an empty accumulator
\* never appends an empty page.
BreakSeals_NoEmptyPage(cur, breaks) ==
  IF cur # << >> THEN "content" ELSE "none"

\* A plausible slip in BreakSeals: every pagebreak seals a page, the first
\* block of the document included.
BreakSeals_Always(cur, breaks) ==
  IF cur # << >> THEN "content" ELSE "empty"

\* A plausible slip in BreakSeals: the count of consecutive pagebreaks is
\* compared with the wrong number, so that the second pagebreak of a run
\* appends no empty page.
BreakSeals_LateEmpty(cur, breaks) ==
  IF cur # << >> THEN "content"
  ELSE IF breaks > 2 THEN "empty"
  ELSE "none"

\* What a pagebreak element does to the page list: "content" seals the
\* current page, "empty" appends an empty page, "none" seals nothing.
\* breaks is consecutive_breaks after its increment.
BreakSeals(cur, breaks) ==
  IF cur # << >> THEN "content"
  ELSE IF breaks > 1 THEN "empty"
  ELSE "none"

\* A plausible slip in MarkForced: the sealed page is not recorded.
MarkForced_Skipped(forced, pgs) == forced

\* A plausible slip in MarkForced: the index is taken as the length of the
\* list after the append.
MarkForced_NextIndex(forced, pgs) == forced \cup {Len(pgs)}

\* self.forced_break_pages.add(len(pages) - 1)
MarkForced(forced, pgs) == forced \cup {Len(pgs) - 1}

\* A plausible slip in AfterBreak: the pagebreak branch steps over the
\* element that follows the marker.
AfterBreak_SkipsNext(idx) == idx + 2

\* i += 1 before the continue of the pagebreak branch.
AfterBreak(idx) == idx + 1

\* One iteration of the loop on a pagebreak element.
PageBreakStep ==
  /\ pc = "paginate"
  /\ i <= Len(elements)
  /\ elements[i].type = "pagebreak"
  /\ consecutive_breaks' = consecutive_breaks + 1
  /\ LET seal == BreakSeals(current_page_elements, consecutive_breaks')
     IN /\ pages' = IF seal = "content"
                      THEN Append(pages, ElementsToHtml(current_page_elements))
                    ELSE IF seal = "empty" THEN Append(pages, << >>)
                    ELSE pages
        /\ forced_break_pages' =
             IF seal = "none" THEN forced_break_pages
             ELSE MarkForced(forced_break_pages, pages')
        /\ current_page_elements' =
             IF seal = "content" THEN << >> ELSE current_page_elements
        /\ current_height' = IF seal = "content" THEN 0 ELSE current_height
  /\ i' = AfterBreak(i)
  /\ UNCHANGED << size_arg, stale_marks, page_size_name, html_content, pc,
                  elements >>
  /\ UNCHANGED optimize_vars
  /\ UNCHANGED export_vars

\* A plausible slip in HeadingNeedsBreak: the space kept below the heading
\* is left out of the test.
HeadingNeedsBreak_NoKeep(element, height, size) ==
  /\ element.type = "heading"
  /\ height + element.height > ContentHeight(size)

\* The heading look-ahead test.
HeadingNeedsBreak(element, height, size) ==
  /\ element.type = "heading"
  /\ height + element.height + HeadingKeepWith(size) > ContentHeight(size)

\* A plausible slip in Overflows: the height already on the page is left out
\* of the test.
Overflows_IgnoresCurrent(height, element_height, size) ==
  element_height > ContentHeight(size)

\* The overflow test.
Overflows(height, element_height, size) ==
  height + element_height > ContentHeight(size)

\* A plausible slip in TrySplitParagraph: the paragraph is cut where the
\* page ends, the first part taking the height that is left.
TrySplitParagraph_AtPageEnd(element, available_height) ==
  << [type |-> "paragraph",
      content |-> [element.content EXCEPT !.n = element.content.n \div 2],
      height |-> available_height],
     [type |-> "paragraph",
      content |-> [element.content EXCEPT
                     !.n = element.content.n - (element.content.n \div 2)],
      height |-> element.height - available_height] >>

\* _try_split_paragraph: never splits.  The result is the pair
\* << first_part, second_part >>, or << >> for None.
TrySplitParagraph(element, available_height) == << >>

\* A plausible slip in SealIfAny: the current page is sealed without the
\* test that it holds something.
SealIfAny_Always(pgs, cur) == Append(pgs, ElementsToHtml(cur))

\* A plausible slip in SealIfAny: the current page is written over the page
\* sealed last instead of being appended.
SealIfAny_Overwrites(pgs, cur) ==
  IF cur = << >> THEN pgs
  ELSE IF pgs = << >> THEN << ElementsToHtml(cur) >>
  ELSE [pgs EXCEPT ![Len(pgs)] = ElementsToHtml(cur)]

\* Sealing the current page when it holds something.
SealIfAny(pgs, cur) ==
  IF cur # << >> THEN Append(pgs, ElementsToHtml(cur)) ELSE pgs

\* One iteration of the loop on an element that is no pagebreak.
ElementStep ==
  /\ pc = "paginate"
  /\ i <= Len(elements)
  /\ elements[i].type # "pagebreak"
  /\ consecutive_breaks' = 0
  /\ LET element == elements[i]
         element_height == element.height
         \* special handling of headings
         look == /\ HeadingNeedsBreak(element, current_height, page_size_name)
                 /\ current_page_elements # << >>
         pages1 == IF look
                     THEN Append(pages, ElementsToHtml(current_page_elements))
                     ELSE pages
         cur1 == IF look THEN << >> ELSE current_page_elements
         height1 == IF look THEN 0 ELSE current_height
     IN IF Overflows(height1, element_height, page_size_name)
          THEN IF /\ element.type = "paragraph"
                  /\ element_height * 10 > content_height * 3
                 THEN LET split_result ==
                            TrySplitParagraph(element, content_height - height1)
                      IN IF split_result # << >>
                           THEN /\ pages' = Append(pages1,
                                     ElementsToHtml(Append(cur1, split_result[1])))
                                /\ current_page_elements' = << split_result[2] >>
                                /\ current_height' = split_result[2].height
                           ELSE /\ pages' = SealIfAny(pages1, cur1)
                                /\ current_page_elements' = << element >>
                                /\ current_height' = element_height
                 ELSE /\ pages' = SealIfAny(pages1, cur1)
                      /\ current_page_elements' = << element >>
                      /\ current_height' = element_height
          ELSE /\ pages' = pages1
               /\ current_page_elements' = Append(cur1, element)
               /\ current_height' = height1 + element_height
  /\ i' = i + 1
  /\ UNCHANGED << size_arg, stale_marks, page_size_name, forced_break_pages,
                  html_content, pc, elements >>
  /\ UNCHANGED optimize_vars
  /\ UNCHANGED export_vars

\* A plausible slip in PagesOrOriginal: the list is returned as it is, empty
\* or not.
PagesOrOriginal_AsIs(pgs, html) == pgs

\* if not pages: return [html_content]
PagesOrOriginal(pgs, html) == IF pgs = << >> THEN << html >> ELSE pgs

\* After the loop: save the last page; with no page at all, return the
\* original content as the only page.
PaginateEnd ==
  /\ pc = "paginate"
  /\ i > Len(elements)
  /\ pages' = PagesOrOriginal(SealIfAny(pages, current_page_elements),
                              html_content)
  /\ pc' = "paginated"
  /\ UNCHANGED << size_arg, stale_marks, page_size_name, forced_break_pages,
                  html_content, elements, i,
                  current_page_elements, current_height, consecutive_breaks >>
  /\ UNCHANGED optimize_vars
  /\ UNCHANGED export_vars


\* ----- optimize_pages ----------------------------------------------------
\* The height optimize_pages estimates for a page: it parses the page's
\* HTML again and adds up the heights.
PageHeight(page, size) ==
  SumHeights(ParseHtmlToElements(page, ContentWidth(size)))

\* A plausible slip in MergeThreshold: the small preset gets the threshold
\* of the others.
MergeThreshold_Same(size) == 40

\* merge_threshold, in percent.
MergeThreshold(size) == IF size = "small" THEN 35 ELSE 40

\* current_height < content_height * merge_threshold
IsShort(height, size) ==
  height * 100 < ContentHeight(size) * MergeThreshold(size)

\* A plausible slip in MergeFits: the two pages are never measured together.
MergeFits_Always(height, next_height, size) == TRUE

\* current_height + next_height <= content_height
MergeFits(height, next_height, size) ==
  height + next_height <= ContentHeight(size)

\* A plausible slip in NextMergeable: an off-by-one bound, so that the last
\* page is never merged into the page before it.
NextMergeable_NotLast(idx, pgs, forced) ==
  /\ idx < Len(pgs) - 2
  /\ (idx + 1) \notin forced
  /\ ~IsBlank(pgs[idx + 2])

\* A plausible slip in NextMergeable: the next page is not tested for
\* being forced.
NextMergeable_IgnoresForced(idx, pgs, forced) ==
  /\ idx < Len(pgs) - 1
  /\ ~IsBlank(pgs[idx + 2])

\* The page after index idx (0-based) may be merged into it: it is not
\* forced and has content.
NextMergeable(idx, pgs, forced) ==
  /\ idx < Len(pgs) - 1
  /\ (idx + 1) \notin forced
  /\ ~IsBlank(pgs[idx + 2])

\* A plausible slip in MergePages: the pages are joined with a newline, as
\* the blocks of a page are.
MergePages_WithNewline(this_page, next_page) ==
  this_page \o << NL >> \o next_page

\* current_page + next_page
MergePages(this_page, next_page) == this_page \o next_page

\* A plausible slip in ReturnsAtOnce: only the empty list is returned at
\* once.
ReturnsAtOnce_OnlyEmpty(pgs) == Len(pgs) < 1

\* if len(pages) <= 1: return pages
ReturnsAtOnce(pgs) == Len(pgs) <= 1

\* optimize_pages on a list of at most one page: returned as it is.
OptimizeShort ==
  /\ pc = "paginated"
  /\ ReturnsAtOnce(pages)
  /\ current_pages' = pages
  /\ merged_from' = [k \in 1..Len(pages) |-> << k - 1 >>]
  /\ optimized' = << >>
  /\ opt_i' = 0
  /\ pc' = "done"
  /\ UNCHANGED << size_arg, stale_marks, page_size_name, forced_break_pages,
                  html_content >>
  /\ UNCHANGED paginate_vars
  /\ UNCHANGED export_vars

\* optimize_pages up to its loop.
OptimizeBegin ==
  /\ pc = "paginated"
  /\ ~ReturnsAtOnce(pages)
  /\ optimized' = << >>
  /\ merged_from' = << >>
  /\ opt_i' = 0
  /\ pc' = "optimize"
  /\ UNCHANGED << size_arg, stale_marks, page_size_name, forced_break_pages,
                  html_content, current_pages >>
  /\ UNCHANGED paginate_vars
  /\ UNCHANGED export_vars

\* A plausible slip in AfterMerge: the page merged into the current one is
\* not skipped.
AfterMerge_NoSkip(idx) == idx + 1

\* i += 2 after a merge: the next page is skipped.
AfterMerge(idx) == idx + 2

\* One iteration of the loop of optimize_pages.
OptimizeStep ==
  /\ pc = "optimize"
  /\ opt_i < Len(pages)
  /\ LET this_page == pages[opt_i + 1]
         is_forced_page == opt_i \in forced_break_pages
         height == PageHeight(this_page, page_size_name)
     IN IF is_forced_page
          THEN /\ optimized' = Append(optimized, this_page)
               /\ merged_from' = Append(merged_from, << opt_i >>)
               /\ opt_i' = opt_i + 1
        ELSE IF IsBlank(this_page)
          THEN /\ opt_i' = opt_i + 1
               /\ UNCHANGED << optimized, merged_from >>
        ELSE IF /\ IsShort(height, page_size_name)
                /\ NextMergeable(opt_i, pages, forced_break_pages)
                /\ MergeFits(height, PageHeight(pages[opt_i + 2], page_size_name),
                             page_size_name)
          THEN /\ optimized' =
                    Append(optimized, MergePages(this_page, pages[opt_i + 2]))
               /\ merged_from' = Append(merged_from, << opt_i, opt_i + 1 >>)
               /\ opt_i' = AfterMerge(opt_i)
        ELSE /\ optimized' = Append(optimized, this_page)
             /\ merged_from' = Append(merged_from, << opt_i >>)
             /\ opt_i' = opt_i + 1
  /\ UNCHANGED << size_arg, stale_marks, page_size_name, forced_break_pages,
                  html_content, pc,
                  current_pages >>
  /\ UNCHANGED paginate_vars
  /\ UNCHANGED export_vars

\* A plausible slip in FallbackIfNone: the list is returned as it is, empty
\* or not.
FallbackIfNone_AsIs(opt) == opt

\* return optimized if optimized else ['']
FallbackIfNone(opt) == IF opt # << >> THEN opt ELSE << << >> >>

\* After the loop: with no page left, return one empty page.
OptimizeEnd ==
  /\ pc = "optimize"
  /\ opt_i >= Len(pages)
  /\ current_pages' = FallbackIfNone(optimized)
  /\ pc' = "done"
  /\ UNCHANGED << size_arg, stale_marks, page_size_name, forced_break_pages,
                  html_content, optimized,
                  opt_i, merged_from >>
  /\ UNCHANGED paginate_vars
  /\ UNCHANGED export_vars

Next ==
  \/ pc = "idle" /\ \E size \in SizeNames : SetPageSize(size)
  \/ pc = "idle" /\ \E doc \in Documents : PaginateBegin(doc)
  \/ PageBreakStep
  \/ ElementStep
  \/ PaginateEnd
  \/ OptimizeShort
  \/ OptimizeBegin
  \/ OptimizeStep
  \/ OptimizeEnd

Spec == Init /\ [][Next]_vars

\* The steps that run by themselves once paginate was called: the two
\* loops and what follows them.
Run ==
  \/ PageBreakStep
  \/ ElementStep
  \/ PaginateEnd
  \/ OptimizeShort
  \/ OptimizeBegin
  \/ OptimizeStep
  \/ OptimizeEnd

\* The two calls are one thread of straight-line code: a step that can be
\* taken is taken.
SpecFair == Spec /\ WF_vars(Run)

\* The largest document of a session, in top-level nodes.
SessionLen == 3

\* The documents of a session: a pagebreak, a short paragraph, a code block
\* taller than every page.
SessionShapes ==
  { [tag |-> "pagebreak", n |-> 0],
    [tag |-> "p",         n |-> ShortChars],
    [tag |-> "pre",       n |-> CodeLines] }

SessionDocuments ==
  UNION { { [k \in 1..len |-> NodeAt(f[k], k)] : f \in [1..len -> SessionShapes] }
          : len \in 0..SessionLen }

\* A session: any number of paginations on the same paginator, one after
\* another, with preset changes in between.  Nothing is reset between two
\* calls of paginate: the second call finds what the first left.
NextSession ==
  \/ \E size \in SizeNames : SetPageSize(size)
  \/ \E doc \in SessionDocuments : PaginateAgain(doc)
  \/ Run

SpecSession == Init /\ [][NextSession]_vars

\* ----- paginate on streams without pagebreaks and headings ----------------
\* The blocks of such a stream: a short paragraph, a code block of which
\* two fit on a medium or large page, a code block taller than every page.
PlainShapes ==
  { [tag |-> "p",   n |-> ShortChars],
    [tag |-> "pre", n |-> HalfLines],
    [tag |-> "pre", n |-> CodeLines] }

PlainDocuments ==
  UNION { { [k \in 1..len |-> NodeAt(f[k], k)] : f \in [1..len -> PlainShapes] }
          : len \in 0..MaxPlainLen }

\* paginate alone, on the documents without pagebreaks and headings.
NextPlain ==
  \/ pc = "idle" /\ \E doc \in PlainDocuments : PaginateBegin(doc)
  \/ ElementStep
  \/ PaginateEnd

SpecPlain == Init /\ [][NextPlain]_vars

\* ----- optimize_pages called on its own -----------------------------------
\* The pages a caller may hand to optimize_pages: an empty page, a page of
\* whitespace, a short paragraph, a heading over a short paragraph, a
\* paragraph between 35% and 40% of the small content height, a long
\* paragraph, a code block taller than every page.
PageShapes ==
  { << >>,
    << [tag |-> "nl", n |-> 0] >>,
    << [tag |-> "p", n |-> ShortChars] >>,
    << [tag |-> "h1", n |-> 0], [tag |-> "nl", n |-> 0],
       [tag |-> "p", n |-> ShortChars] >>,
    << [tag |-> "p", n |-> MidChars] >>,
    << [tag |-> "p", n |-> LongChars] >>,
    << [tag |-> "pre", n |-> CodeLines] >> }

\* The page of shape `shape` at position k of a list: its nodes carry k as
\* id, the newlines between blocks are NL.
PageAt(shape, k) ==
  [m \in 1..Len(shape) |->
     IF shape[m].tag = "nl" /\ Len(shape) > 1 THEN NL ELSE NodeAt(shape[m], k)]

\* The page lists: every sequence of at most MaxPages page shapes.
PageLists ==
  UNION { { [k \in 1..len |-> PageAt(f[k], k)] : f \in [1..len -> PageShapes] }
          : len \in 0..MaxPages }

\* optimize_pages(pgs) on a paginator with any preset and any forced marks.
InitOpt ==
  /\ size_arg \in SizeNames
  /\ stale_marks = FALSE
  /\ page_size_name = EffectiveSize(size_arg)
  /\ forced_break_pages \in SUBSET (0..(MaxPages - 1))
  /\ html_content = << >>
  /\ pc = "paginated"
  /\ elements = << >>
  /\ i = 1
  /\ pages \in PageLists
  /\ current_page_elements = << >>
  /\ current_height = 0
  /\ consecutive_breaks = 0
  /\ optimized = << >>
  /\ opt_i = 0
  /\ merged_from = << >>
  /\ current_pages = << >>
  /\ ExporterConstructed

NextOpt ==
  \/ OptimizeShort
  \/ OptimizeBegin
  \/ OptimizeStep
  \/ OptimizeEnd

SpecOpt == InitOpt /\ [][NextOpt]_vars

\* ----- the classifier on HTML trees ---------------------------------------
\* For the claims about where in the tree a marker sits, an HTML string is
\* the sequence of its top-level nodes and a node is a record
\* [tag, cls, data, n, id, kids]: cls is the class attribute as the list of
\* its words (the parser splits it), data the data-pagebreak attribute, kids the children; a text node has tag "text",
\* n characters and an id that tells it from the other text nodes.
TextNode(k) ==
  [tag |-> "text", cls |-> << >>, data |-> "", n |-> ShortChars, id |-> k,
   kids |-> << >>]

Element(tag, cls, data, kids) ==
  [tag |-> tag, cls |-> cls, data |-> data, n |-> 0, id |-> 0, kids |-> kids]

\* The nodes without children: a text, the marker div by its class, the
\* marker div by its attribute, a span that carries the marker's class.
LeafShapes ==
  { TextNode(0),
    Element("div", << "pagebreak-marker" >>, "", << >>),
    Element("div", << >>, "true", << >>),
    Element("span", << "pagebreak-marker" >>, "", << >>) }

\* The elements that hold the leaves.
ContainerTags == {"p", "div", "ul", "blockquote", "table"}

\* The parser joins adjacent text: no two text nodes are neighbours.
NoAdjacentText(nodes) ==
  \A k \in 1..(Len(nodes) - 1) :
    ~(nodes[k].tag = "text" /\ nodes[k + 1].tag = "text")

\* The sequences of at most `most` nodes taken from `shapes`.
NodeSeqs(shapes, most) ==
  UNION { { f \in [1..len -> shapes] : NoAdjacentText(f) } : len \in 0..most }

\* The top-level nodes: the leaves, the marker div that carries another
\* class beside the marker's, and the containers of leaves.
TopShapes ==
  LeafShapes \cup
    { Element("div", << "x", "pagebreak-marker" >>, "", << >>) } \cup
    { Element(t, << >>, "", ks) : t \in ContainerTags,
                               ks \in NodeSeqs(LeafShapes, MaxKids) }

\* The node of shape `shape` at top-level position m: its text nodes get
\* their ids from their positions.
Place(shape, m) ==
  IF shape.tag = "text" THEN [shape EXCEPT !.id = m]
  ELSE [shape EXCEPT !.kids =
          [j \in 1..Len(shape.kids) |->
             IF shape.kids[j].tag = "text"
               THEN [shape.kids[j] EXCEPT !.id = (10 * m) + j]
               ELSE shape.kids[j]]]

\* The documents given to the classifier: at most `top` top-level nodes
\* with at most MaxKids children each, and the paragraphs of at most `para`
\* children.
TreeDocuments(top, para) ==
  { [k \in 1..Len(f) |-> Place(f[k], k)] : f \in NodeSeqs(TopShapes, top) }
  \cup
  { << Place(Element("p", << >>, "", ks), 1) >> :
      ks \in NodeSeqs(LeafShapes \cup
                        { Element("div", << "x", "pagebreak-marker" >>, "",
                                  << >>),
                          Element("br", << >>, "", << >>) },
                      para) }

\* _is_pagebreak_marker on a node of the tree.
IsPagebreakMarkerDiv(node) ==
  /\ node.tag = "div"
  /\ \/ \E j \in 1..Len(node.cls) : node.cls[j] = "pagebreak-marker"
     \/ node.data = "true"

\* len(node.find_all(tag)): the descendants of that name.
RECURSIVE CountTag(_, _)
CountTag(node, tag) ==
  LET RECURSIVE Over(_)
      Over(nodes) ==
        IF nodes = << >> THEN 0
        ELSE (IF Head(nodes).tag = tag THEN 1 ELSE 0)
               + CountTag(Head(nodes), tag) + Over(Tail(nodes))
  IN Over(node.kids)

\* len(node.get_text(strip=True)): the characters of the text nodes below.
RECURSIVE TextLength(_)
TextLength(node) ==
  LET RECURSIVE Over(_)
      Over(nodes) ==
        IF nodes = << >> THEN 0
        ELSE TextLength(Head(nodes)) + Over(Tail(nodes))
  IN IF node.tag = "text" THEN node.n ELSE Over(node.kids)

\* The tags the parser writes without a closing tag, as <br/>.
VoidTags ==
  {"area", "base", "br", "col", "embed", "hr", "img", "input", "keygen",
   "link", "menuitem", "meta", "param", "source", "track", "wbr"}

\* len(str(node)): the characters of the node written as HTML; the class
\* attribute is written as its words joined by one space.
RECURSIVE StrLength(_)
StrLength(node) ==
  LET RECURSIVE Over(_)
      Over(nodes) ==
        IF nodes = << >> THEN 0
        ELSE StrLength(Head(nodes)) + Over(Tail(nodes))
      RECURSIVE Words(_)
      Words(cls) ==
        IF cls = << >> THEN 0 ELSE Len(Head(cls)) + Words(Tail(cls))
      attrs == (IF node.cls = << >> THEN 0
                ELSE Len(" class=\"\"") + Words(node.cls)
                       + (Len(node.cls) - 1))
               + (IF node.data = "" THEN 0
                  ELSE Len(" data-pagebreak=\"\"") + Len(node.data))
  IN IF node.tag = "text" THEN node.n
     ELSE IF node.tag \in VoidTags THEN Len("</>") + Len(node.tag) + attrs
     ELSE Len("<>") + Len(node.tag) + attrs + Over(node.kids)
            + Len("</>") + Len(node.tag)

\* _calculate_blockquote_height for a text of `chars` characters.
CalculateBlockquoteHeight(chars, cw) ==
  IF chars = 0 THEN ELEMENT_HEIGHTS.blockquote
  ELSE LET chars_per_line == (cw - 60) \div CHAR_WIDTH
           lines == Max(1, (chars + chars_per_line - 1) \div chars_per_line)
       IN ELEMENT_HEIGHTS.blockquote + lines * ELEMENT_HEIGHTS.blockquote_line
            + ELEMENT_HEIGHTS.margin_bottom

\* The height the classifier takes for an image without width and height
\* attributes.
IMG_HEIGHT == 350

\* list(node.children).index(child): the first child equal to `child`.
IndexOf(nodes, child) ==
  CHOOSE j \in 1..Len(nodes) :
    /\ nodes[j] = child
    /\ \A m \in 1..(j - 1) : nodes[m] # child

\* text_before.strip() of a run of children is not empty.
NotBlank(nodes) ==
  \E j \in 1..Len(nodes) : nodes[j].tag # "text" \/ nodes[j].n > 0

\* The paragraph branch for a paragraph without images that has a marker
\* among its children: for each marker child, the children before the first
\* child equal to it as one paragraph, then a pagebreak.
RECURSIVE MarkedParagraph(_, _, _)
MarkedParagraph(node, k, cw) ==
  IF k > Len(node.kids) THEN << >>
  ELSE IF IsPagebreakMarkerDiv(node.kids[k])
    THEN LET before == SubSeq(node.kids, 1,
                              IndexOf(node.kids, node.kids[k]) - 1)
             chars == LET RECURSIVE Over(_)
                          Over(nodes) ==
                            IF nodes = << >> THEN 0
                            ELSE StrLength(Head(nodes)) + Over(Tail(nodes))
                      IN Over(before)
         IN (IF NotBlank(before)
               THEN << [type |-> "paragraph",
                        content |-> Element("p", << >>, "", before),
                        height |-> CalculateParagraphHeight(chars, cw),
                        can_break |-> TRUE] >>
               ELSE << >>)
            \o << [type |-> "pagebreak", content |-> Empty, height |-> 0,
                    can_break |-> TRUE] >>
            \o MarkedParagraph(node, k + 1, cw)
  ELSE MarkedParagraph(node, k + 1, cw)

\* The kinds of tag _flatten_parse tells apart by name.
HeadingTags == {"h1", "h2", "h3", "h4", "h5", "h6"}
ListTags == {"ul", "ol"}
SectionTags ==
  {"div", "section", "article", "main", "aside", "nav", "header", "footer"}

\* The element a pagebreak marker is classified as.
PageBreakElement ==
  [type |-> "pagebreak", content |-> Empty, height |-> 0, can_break |-> TRUE]

\* A plausible slip in FindAllImg: only the img children of the node are
\* counted.
FindAllImg_Direct(node) ==
  Cardinality({ k \in 1..Len(node.kids) : node.kids[k].tag = "img" })

\* node.find_all('img'), counted: the img elements at any depth below the
\* node.
FindAllImg(node) == CountTag(node, "img")

\* _flatten_parse on a node of the tree. The n of a pre element is the
\* number of newline characters of its text.
RECURSIVE FlattenParseTree(_, _)
FlattenParseTree(node, cw) ==
  LET RECURSIVE Children(_)
      Children(nodes) ==
        IF nodes = << >> THEN << >>
        ELSE FlattenParseTree(Head(nodes), cw) \o Children(Tail(nodes))
      whole(type, height, can_break) ==
        << [type |-> type, content |-> node, height |-> height,
            can_break |-> can_break] >>
      imgs == FindAllImg(node)
      text == TextLength(node)
      direct_imgs ==
        Cardinality({ k \in 1..Len(node.kids) : node.kids[k].tag = "img" })
  IN IF node.tag = "text"
       THEN IF node.n = 0 THEN << >>
            ELSE << [type |-> "text",
                     content |-> Element("p", << >>, "", << node >>),
                     height |-> CalculateTextHeight(node.n, cw),
                     can_break |-> TRUE] >>
     ELSE IF IsPagebreakMarkerDiv(node)
       THEN << PageBreakElement >>
     ELSE IF node.tag = "img"
       THEN whole("image", IMG_HEIGHT + ELEMENT_HEIGHTS.margin_bottom, FALSE)
     ELSE IF node.tag \in HeadingTags
       THEN whole("heading",
                  ELEMENT_HEIGHTS[node.tag] + ELEMENT_HEIGHTS.margin_bottom,
                  FALSE)
     ELSE IF node.tag = "p"
       THEN IF imgs > 0
              THEN whole("paragraph_with_images",
                         CalculateParagraphHeight(text, cw) + imgs * IMG_HEIGHT,
                         FALSE)
            ELSE IF \E k \in 1..Len(node.kids) :
                      IsPagebreakMarkerDiv(node.kids[k])
              THEN MarkedParagraph(node, 1, cw)
            ELSE IF text > 0
              THEN whole("paragraph", CalculateParagraphHeight(text, cw), TRUE)
            ELSE << >>
     ELSE IF node.tag \in ListTags
       THEN LET items == CountTag(node, "li")
            IN whole("list",
                     items * ELEMENT_HEIGHTS.li + imgs * IMG_HEIGHT
                       + ELEMENT_HEIGHTS.margin_bottom,
                     items > 3 /\ imgs = 0)
     ELSE IF node.tag = "pre"
       THEN LET lines == node.n + 1
            IN whole("code",
                     ELEMENT_HEIGHTS.code_block
                       + lines * ELEMENT_HEIGHTS.code_line
                       + ELEMENT_HEIGHTS.margin_bottom,
                     lines > 10)
     ELSE IF node.tag = "blockquote"
       THEN whole("blockquote",
                  CalculateBlockquoteHeight(text, cw) + imgs * IMG_HEIGHT,
                  imgs = 0)
     ELSE IF node.tag = "table"
       THEN LET rows == CountTag(node, "tr")
                headers == CountTag(node, "th")
            IN whole("table",
                     headers * ELEMENT_HEIGHTS.table_header
                       + (rows - headers) * ELEMENT_HEIGHTS.table_row
                       + ELEMENT_HEIGHTS.margin_bottom,
                     rows > 5)
     ELSE IF node.tag = "hr"
       THEN whole("hr", ELEMENT_HEIGHTS.hr, TRUE)
     ELSE IF node.tag \in SectionTags
       THEN IF direct_imgs > 0
              THEN whole("container_with_images",
                         CalculateTextHeight(text, cw) + direct_imgs * IMG_HEIGHT,
                         FALSE)
            ELSE Children(node.kids)
     ELSE \* any other element, the root of the parsed document included
          IF imgs > 0
            THEN whole("mixed_with_images",
                       CalculateTextHeight(text, cw) + imgs * IMG_HEIGHT,
                       FALSE)
          ELSE IF text > 0 /\ Children(node.kids) = << >>
            THEN whole("text", CalculateTextHeight(text, cw), TRUE)
          ELSE Children(node.kids)

\* parse_html_to_elements on a tree: _flatten_parse of the root that the
\* parser puts over the top-level nodes.
ParseHtmlTree(doc, cw) ==
  FlattenParseTree(Element("[document]", << >>, "", doc), cw)

\* ----- the nodes with images, tables, lists and code ---------------------
\* The largest number of columns, of body rows and of list items of the
\* nodes below, and the newlines of a long code block.
MaxCols == 3
MaxBodyRows == 5
MaxItems == 4
LongCodeNewlines == 10

Img == Element("img", << >>, "", << >>)

\* What a cell, a list item or a block holds.
CellContents == { << TextNode(0) >>, << Img >>, << TextNode(0), Img >> }

\* A row of `cols` cells of tag `cell_tag`, each holding `cell`.
Row(cell_tag, cols, cell) ==
  Element("tr", << >>, "", [c \in 1..cols |-> Element(cell_tag, << >>, "", cell)])

\* A table of `header_rows` rows of th cells, then `body_rows` rows of td
\* cells, `cols` cells to a row.
TableNode(cols, header_rows, body_rows, cell) ==
  Element("table", << >>, "",
          [r \in 1..(header_rows + body_rows) |->
             IF r <= header_rows THEN Row("th", cols, cell)
                                 ELSE Row("td", cols, cell)])

TableNodes ==
  { TableNode(cols, header_rows, body_rows, cell) :
      cols \in 1..MaxCols, header_rows \in 0..1, body_rows \in 0..MaxBodyRows,
      cell \in CellContents }

\* A list of `items` items, each holding `cell`.
ListNode(tag, items, cell) ==
  Element(tag, << >>, "", [k \in 1..items |-> Element("li", << >>, "", cell)])

ListNodes ==
  { ListNode(tag, items, cell) :
      tag \in ListTags, items \in 0..MaxItems, cell \in CellContents }

\* A code block whose text has `newlines` newline characters.
PreNode(newlines, kids) ==
  [Element("pre", << >>, "", kids) EXCEPT !.n = newlines]

PreNodes ==
  { PreNode(newlines, kids) :
      newlines \in {0, LongCodeNewlines}, kids \in CellContents }

\* What a container holds: a text, an image, a marker, a paragraph of text,
\* a paragraph with an image, a container with an image.
ChildShapes ==
  { TextNode(0), Img,
    Element("div", << "pagebreak-marker" >>, "", << >>),
    Element("p", << >>, "", << TextNode(0) >>),
    Element("p", << >>, "", << Img >>),
    Element("div", << >>, "", << Img >>) }

BlockTags == {"p", "blockquote", "h1", "div", "section", "span"}

BlockNodes ==
  { Element(tag, << >>, "", kids) :
      tag \in BlockTags, kids \in NodeSeqs(ChildShapes, MaxKids) }

FlattenNodes == TableNodes \cup ListNodes \cup PreNodes \cup BlockNodes

\* The documents made of one container.
SectionDocuments ==
  { << node >> : node \in { nd \in BlockNodes : nd.tag \in SectionTags } }

\* parse_html_to_elements(doc) on a paginator just constructed.
InitClassify ==
  /\ size_arg = "medium"
  /\ stale_marks = FALSE
  /\ page_size_name = EffectiveSize(size_arg)
  /\ forced_break_pages = {}
  /\ html_content \in TreeDocuments(MaxTop, MaxParaKids) \cup SectionDocuments
  /\ pc = "idle"
  /\ elements = << >>
  /\ i = 1
  /\ pages = << >>
  /\ current_page_elements = << >>
  /\ current_height = 0
  /\ consecutive_breaks = 0
  /\ optimized = << >>
  /\ opt_i = 0
  /\ merged_from = << >>
  /\ current_pages = << >>
  /\ ExporterConstructed

ParseStep ==
  /\ pc = "idle"
  /\ elements' = ParseHtmlTree(html_content, content_width)
  /\ pc' = "parsed"
  /\ UNCHANGED << size_arg, stale_marks, page_size_name, forced_break_pages,
                  html_content, i, pages, current_page_elements,
                  current_height, consecutive_breaks >>
  /\ UNCHANGED optimize_vars
  /\ UNCHANGED export_vars

SpecClassify == InitClassify /\ [][ParseStep]_vars

\* ----- parse_html_to_elements on documents of one block -------------------
\* parse_html_to_elements(doc) on a paginator just constructed, doc being
\* one table, list, code block, heading, paragraph, blockquote or container,
\* with or without images.
InitBlocks ==
  /\ size_arg \in SizeNames
  /\ stale_marks = FALSE
  /\ page_size_name = EffectiveSize(size_arg)
  /\ forced_break_pages = {}
  /\ html_content \in { << node >> : node \in FlattenNodes }
  /\ pc = "idle"
  /\ elements = << >>
  /\ i = 1
  /\ pages = << >>
  /\ current_page_elements = << >>
  /\ current_height = 0
  /\ consecutive_breaks = 0
  /\ optimized = << >>
  /\ opt_i = 0
  /\ merged_from = << >>
  /\ current_pages = << >>
  /\ ExporterConstructed

SpecBlocks == InitBlocks /\ [][ParseStep]_vars

\* ----- ImageExporter ------------------------------------------------------
\* The largest number of pages given to export_pages.
MaxExport == 3

\* The pages given to the exporter: the empty string and a short paragraph.
ExportShapes == { << >>, << [tag |-> "p", n |-> ShortChars] >> }

ExportLists ==
  UNION { { [k \in 1..len |-> PageAt(f[k], k)] : f \in [1..len -> ExportShapes] }
          : len \in 0..MaxExport }

\* The callbacks given to QTimer.singleShot.
CapturePageTimer(page_num) == [fn |-> "_capture_page", page_num |-> page_num]
ExportNextPageTimer == [fn |-> "_export_next_page", page_num |-> 0]
OnLoadFinishedTimer == [fn |-> "on_load_finished", page_num |-> 0]

\* The largest number of calls of export_pages in a session.
MaxRuns == 2

\* The largest number of calls of cancel_export and of export_as_pdf in a
\* session.
MaxCalls == 2

\* The signals of the exporter.
Progress(current, total) ==
  [sig |-> "progress", num |-> current, total |-> total, ok |-> TRUE,
   image |-> Blank]
PageExported(page_num, image) ==
  [sig |-> "page_exported", num |-> page_num, total |-> 0, ok |-> TRUE,
   image |-> image]
Finished(ok) ==
  [sig |-> "finished", num |-> 0, total |-> 0, ok |-> ok, image |-> Blank]

\* The index after a page was saved.
NextIndex_Skip(idx) == idx + 2
NextIndex(idx) == idx + 1

\* The page that _export_next_page loads into the web view.
PageToLoad_First(pgs, idx) == pgs[1]
PageToLoad(pgs, idx) == pgs[idx + 1]

\* The body of _export_next_page on the exporter's state (pgs, idx,
\* exporting) with the timers `pending` and the signals `emitted`.  No slot
\* is connected to the signals.
ExportNextPageBody(pgs, idx, exporting, pending, emitted) ==
  IF ~exporting
    THEN /\ is_exporting' = exporting
         /\ timers' = pending
         /\ signals' = emitted
         /\ web_view' = web_view
  ELSE IF idx >= Len(pgs)
    THEN /\ is_exporting' = FALSE
         /\ timers' = pending
         /\ signals' = Append(emitted, Finished(TRUE))
         /\ web_view' = web_view
  ELSE /\ is_exporting' = exporting
       /\ signals' = Append(emitted, Progress(idx + 1, Len(pgs)))
       /\ web_view' = [content |-> PageToLoad(pgs, idx), page_num |-> idx + 1,
                       total_pages |-> Len(pgs)]
       /\ timers' = pending (+) SetToBag({ CapturePageTimer(idx + 1) })

\* ImageExporter.export_pages(current_pages, ...), whether an export runs or
\* not.  The fields are assigned, then the folder is made, which raises or
\* not; when it raises, _export_next_page is not called and _is_exporting
\* stays True.
ExportPagesCall ==
  /\ pages_to_export' = current_pages
  /\ current_export_index' = 0
  /\ runs' = runs + 1
  /\ \E mkdir_raises \in BOOLEAN :
       IF mkdir_raises
         THEN /\ is_exporting' = TRUE
              /\ signals' = << >>
              /\ errors' = Append(errors, "OSError")
              /\ UNCHANGED << timers, web_view >>
         ELSE /\ ExportNextPageBody(current_pages, 0, TRUE, timers, << >>)
              /\ UNCHANGED errors
  /\ UNCHANGED << pdf_loop, calls >>
  /\ UNCHANGED << size_arg, stale_marks, page_size_name, forced_break_pages,
                  html_content, pc >>
  /\ UNCHANGED paginate_vars
  /\ UNCHANGED optimize_vars

\* The first export of a session.
ExportPages ==
  /\ runs = 0
  /\ ExportPagesCall

\* The timer of _export_next_page fires.
ExportNextPage ==
  /\ BagIn(ExportNextPageTimer, timers)
  /\ ExportNextPageBody(pages_to_export, current_export_index, is_exporting,
                        timers (-) SetToBag({ ExportNextPageTimer }), signals)
  /\ UNCHANGED << pages_to_export, current_export_index, runs, pdf_loop,
                  calls, errors >>
  /\ UNCHANGED << size_arg, stale_marks, page_size_name, forced_break_pages,
                  html_content, pc >>
  /\ UNCHANGED paginate_vars
  /\ UNCHANGED optimize_vars

\* The timer of _capture_page(page_num) fires: _render_to_image renders the
\* web view and saves the image, which succeeds or not.
CapturePage ==
  \E page_num \in 1..MaxExport, success \in BOOLEAN :
    /\ BagIn(CapturePageTimer(page_num), timers)
    /\ LET pending == timers (-) SetToBag({ CapturePageTimer(page_num) })
       IN IF ~is_exporting
            THEN /\ timers' = pending
                 /\ UNCHANGED << current_export_index, is_exporting, signals >>
          ELSE IF success
            THEN /\ signals' = Append(signals, PageExported(page_num, web_view))
                 /\ current_export_index' = NextIndex(current_export_index)
                 /\ timers' = pending (+) SetToBag({ ExportNextPageTimer })
                 /\ UNCHANGED is_exporting
          ELSE /\ is_exporting' = FALSE
               /\ signals' = Append(signals, Finished(FALSE))
               /\ timers' = pending
               /\ UNCHANGED current_export_index
    /\ UNCHANGED << pages_to_export, web_view, runs, pdf_loop, calls, errors >>
    /\ UNCHANGED << size_arg, stale_marks, page_size_name, forced_break_pages,
                    html_content, pc >>
    /\ UNCHANGED paginate_vars
    /\ UNCHANGED optimize_vars

\* ImageExporter.cancel_export(), whether an export runs or not.
CancelExport ==
  /\ calls < MaxCalls
  /\ calls' = calls + 1
  /\ is_exporting' = FALSE
  /\ pages_to_export' = << >>
  /\ signals' = Append(signals, Finished(FALSE))
  /\ UNCHANGED << current_export_index, timers, web_view, runs, pdf_loop,
                  errors >>
  /\ UNCHANGED << size_arg, stale_marks, page_size_name, forced_break_pages,
                  html_content, pc >>
  /\ UNCHANGED paginate_vars
  /\ UNCHANGED optimize_vars

\* An exporter just constructed, and the pages it will be given.
InitExport ==
  /\ size_arg = "medium"
  /\ stale_marks = FALSE
  /\ page_size_name = EffectiveSize(size_arg)
  /\ forced_break_pages = {}
  /\ html_content = << >>
  /\ pc = "done"
  /\ elements = << >>
  /\ i = 1
  /\ pages = << >>
  /\ current_page_elements = << >>
  /\ current_height = 0
  /\ consecutive_breaks = 0
  /\ optimized = << >>
  /\ opt_i = 0
  /\ merged_from = << >>
  /\ current_pages \in ExportLists
  /\ ExporterConstructed

\* The callbacks the event loop runs.
TimerFires ==
  \/ ExportNextPage
  \/ CapturePage

NextExport ==
  \/ ExportPages
  \/ TimerFires
  \/ CancelExport

\* One export.
SpecExport == InitExport /\ [][NextExport]_vars

\* The event loop fires every timer that is due.
SpecExportFair == SpecExport /\ WF_vars(TimerFires)

\* A later call of export_pages on the same exporter, whether the earlier
\* run has ended or not.
ExportPagesAgain ==
  /\ runs > 0
  /\ runs < MaxRuns
  /\ ExportPagesCall

\* _combine_pages_for_pdf: every page in a div of class page, with a div
\* that breaks the page before each but the first.
RECURSIVE CombinePagesForPdf(_, _)
CombinePagesForPdf(pgs, k) ==
  IF k > Len(pgs) THEN << >>
  ELSE (IF k > 1 THEN << [tag |-> "div", style |-> "page-break-before"] >>
        ELSE << >>)
       \o << [tag |-> "div", class |-> "page", children |-> pgs[k]] >>
       \o CombinePagesForPdf(pgs, k + 1)

\* ImageExporter.export_as_pdf(current_pages, ...) up to loop.exec(): the
\* combined document is loaded into the web view, the timer of
\* on_load_finished armed and the event loop entered; or an exception is
\* raised before that and finished(False) emitted.
ExportAsPdfBegin ==
  /\ ~pdf_loop
  /\ calls < MaxCalls
  /\ calls' = calls + 1
  /\ \E raised \in BOOLEAN :
       IF raised
         THEN /\ signals' = Append(signals, Finished(FALSE))
              /\ UNCHANGED << web_view, pdf_loop, timers >>
         ELSE /\ web_view' = [content |-> CombinePagesForPdf(current_pages, 1),
                              page_num |-> 0, total_pages |-> 0]
              /\ timers' = timers (+) SetToBag({ OnLoadFinishedTimer })
              /\ pdf_loop' = TRUE
              /\ UNCHANGED signals
  /\ UNCHANGED << pages_to_export, current_export_index, is_exporting, runs,
                  errors >>
  /\ UNCHANGED << size_arg, stale_marks, page_size_name, forced_break_pages,
                  html_content, pc >>
  /\ UNCHANGED paginate_vars
  /\ UNCHANGED optimize_vars

\* The timer of on_load_finished fires inside the event loop of
\* export_as_pdf: the page of the web view is asked to print.
OnLoadFinished ==
  /\ BagIn(OnLoadFinishedTimer, timers)
  /\ timers' = timers (-) SetToBag({ OnLoadFinishedTimer })
  /\ UNCHANGED << pages_to_export, current_export_index, is_exporting,
                  web_view, signals, runs, pdf_loop, calls, errors >>
  /\ UNCHANGED << size_arg, stale_marks, page_size_name, forced_break_pages,
                  html_content, pc >>
  /\ UNCHANGED paginate_vars
  /\ UNCHANGED optimize_vars

\* export_as_pdf after loop.exec(): the print asked for by on_load_finished
\* has called back and quit the loop, finished(True) is emitted.
ExportAsPdfEnd ==
  /\ pdf_loop
  /\ ~BagIn(OnLoadFinishedTimer, timers)
  /\ pdf_loop' = FALSE
  /\ signals' = Append(signals, Finished(TRUE))
  /\ UNCHANGED << pages_to_export, current_export_index, is_exporting, timers,
                  web_view, runs, calls, errors >>
  /\ UNCHANGED << size_arg, stale_marks, page_size_name, forced_break_pages,
                  html_content, pc >>
  /\ UNCHANGED paginate_vars
  /\ UNCHANGED optimize_vars

NextExportPdf ==
  \/ ExportPages
  \/ TimerFires
  \/ ExportAsPdfBegin
  \/ OnLoadFinished
  \/ ExportAsPdfEnd

\* One export of images, with exports to PDF on the same exporter.
SpecExportPdf == InitExport /\ [][NextExportPdf]_vars

NextExportSession ==
  \/ ExportPages
  \/ ExportPagesAgain
  \/ TimerFires
  \/ CancelExport

\* Several exports on the same exporter.
SpecExportSession == InitExport /\ [][NextExportSession]_vars

\* ----- the widgets of the application -------------------------------------
\* The keyword arguments HTMLGenerator.__init__(self) accepts.
HTMLGeneratorKeywords == {}

\* The public methods of StyleManager.
StyleManagerMethods ==
  { "get_theme", "set_theme", "generate_css", "get_export_settings",
    "apply_custom_styles", "get_combined_css" }

\* PreviewWidget(): the constructor calls HTMLGenerator(page_size="medium")
\* before it makes the paginator, the web view and the exporter.
PreviewWidgetInit ==
  /\ errors = << >>
  /\ "page_size" \notin HTMLGeneratorKeywords
  /\ errors' = Append(errors, "TypeError")
  /\ UNCHANGED << pages_to_export, current_export_index, is_exporting, timers,
                  web_view, signals, runs, pdf_loop, calls >>
  /\ UNCHANGED << size_arg, stale_marks, page_size_name, forced_break_pages,
                  html_content, pc >>
  /\ UNCHANGED paginate_vars
  /\ UNCHANGED optimize_vars

\* MainWindow(), as main() calls it: init_ui asks the style manager for
\* get_theme_display_names() while it builds the toolbar, before the editor
\* and the preview are made.
MainWindowInit ==
  /\ errors = << >>
  /\ "get_theme_display_names" \notin StyleManagerMethods
  /\ errors' = Append(errors, "AttributeError")
  /\ UNCHANGED << pages_to_export, current_export_index, is_exporting, timers,
                  web_view, signals, runs, pdf_loop, calls >>
  /\ UNCHANGED << size_arg, stale_marks, page_size_name, forced_break_pages,
                  html_content, pc >>
  /\ UNCHANGED paginate_vars
  /\ UNCHANGED optimize_vars

NextWidgets ==
  \/ PreviewWidgetInit
  \/ MainWindowInit

\* The constructors of the two widgets: each ends with its exception, and
\* no method of a widget runs.
SpecWidgets == Init /\ [][NextWidgets]_vars

\* ----- vocabulary of the properties --------------------------------------
\* An HTML string without the newlines between its blocks.
StripNL(html) == SelectSeq(html, LAMBDA nd : nd.tag # "nl")

RECURSIVE Concat(_)
Concat(seqs) == IF seqs = << >> THEN << >> ELSE Head(seqs) \o Concat(Tail(seqs))

\* The HTML of the non-pagebreak blocks, in input order.
RECURSIVE Contents(_)
Contents(els) ==
  IF els = << >> THEN << >>
  ELSE IF Head(els).type = "pagebreak" THEN Contents(Tail(els))
  ELSE << Head(els).content >> \o Contents(Tail(els))

IsContent(k) == elements[k].type # "pagebreak"
IsBreak(k) == elements[k].type = "pagebreak"

\* Page `page` holds the HTML of block k.
Holds(page, k) == \E m \in 1..Len(page) : page[m] = elements[k].content

\* The pages of `out` (1-based) that hold block k.
PagesHolding(out, k) == { j \in 1..Len(out) : Holds(out[j], k) }

\* There is a pagebreak strictly between blocks a and b.
BreakBetween(a, b) == \E m \in (a + 1)..(b - 1) : IsBreak(m)

\* Everything strictly between blocks a and b is a pagebreak.
OnlyBreaksBetween(a, b) == \A m \in (a + 1)..(b - 1) : IsBreak(m)

\* ----- C1 ----------------------------------------------------------------
\* C1: content preservation.  When both calls are done, the pages
\* returned by paginate and then optimize_pages, concatenated in order and
\* without the newlines between blocks, are exactly the HTML of the
\* non-pagebreak blocks, each once and in input order.
C1_ContentPreserved ==
  pc = "done" => StripNL(Concat(current_pages)) = Contents(elements)

\* ----- C2 ----------------------------------------------------------------
\* C2: forced-break exactness.  In the final output two content blocks with
\* a pagebreak between them are each on exactly one page and on different
\* pages; [A, PageBreak, B] gives exactly two pages, the first holding only
\* A and the second only B.
C2_ForcedBreakExact ==
  pc = "done" =>
    /\ \A a, b \in 1..Len(elements) :
         (a < b /\ IsContent(a) /\ IsContent(b) /\ BreakBetween(a, b)) =>
           /\ Cardinality(PagesHolding(current_pages, a)) = 1
           /\ Cardinality(PagesHolding(current_pages, b)) = 1
           /\ PagesHolding(current_pages, a) \cap PagesHolding(current_pages, b) = {}
    /\ (Len(elements) = 3 /\ IsContent(1) /\ IsBreak(2) /\ IsContent(3)) =>
         current_pages = << << elements[1].content >>, << elements[3].content >> >>

\* Witness of C2: two short paragraphs (both would fit on one page many
\* times over) around one pagebreak came out as two pages.
C2_Witness ==
  /\ pc = "done"
  /\ Len(elements) = 3
  /\ elements[1].type = "paragraph" /\ elements[1].content.n = ShortChars
  /\ IsBreak(2)
  /\ elements[3].type = "paragraph" /\ elements[3].content.n = ShortChars
  /\ Len(current_pages) = 2


\* ----- C3 ----------------------------------------------------------------
\* The page (1-based) of `out` that holds block k.
PageOf(out, k) == CHOOSE j \in 1..Len(out) : Holds(out[j], k)

\* In `out`, two content blocks a < b with k >= 1 pagebreaks and nothing
\* else between them are k pages apart, and the k-1 pages between are empty.
EmptyPagesBetween(out) ==
  \A a, b \in 1..Len(elements) :
    (a + 1 < b /\ IsContent(a) /\ IsContent(b) /\ OnlyBreaksBetween(a, b)) =>
      /\ PagesHolding(out, a) # {}
      /\ PagesHolding(out, b) # {}
      /\ PageOf(out, b) - PageOf(out, a) = b - a - 1
      /\ \A j \in (PageOf(out, a) + 1)..(PageOf(out, b) - 1) : out[j] = << >>

\* C3: a run of k >= 1 pagebreaks between two content blocks gives exactly
\* k-1 empty pages between their pages, after paginate and still after
\* optimize_pages; [A, PageBreak, PageBreak, B] gives exactly 3 pages, the
\* middle one empty.
C3_DoubleBreakEmptyPage ==
  /\ pc = "paginated" => EmptyPagesBetween(pages)
  /\ pc = "done" =>
       /\ EmptyPagesBetween(current_pages)
       /\ (Len(elements) = 4 /\ IsContent(1) /\ IsBreak(2) /\ IsBreak(3)
             /\ IsContent(4)) =>
            current_pages = << << elements[1].content >>, << >>,
                               << elements[4].content >> >>

\* Witness of C3: [A, PageBreak, PageBreak, B] is done and has an empty
\* second page.
C3_Witness ==
  /\ pc = "done"
  /\ Len(elements) = 4
  /\ IsContent(1) /\ IsBreak(2) /\ IsBreak(3) /\ IsContent(4)
  /\ Len(current_pages) = 3
  /\ current_pages[2] = << >>

\* ----- C4 ----------------------------------------------------------------
\* The loop of paginate is at a pagebreak element.
AtPageBreak ==
  pc = "paginate" /\ i <= Len(elements) /\ elements[i].type = "pagebreak"

\* C4 as stated: every pagebreak processed by paginate seals one page at
\* that position, wherever it occurs, the start of the document included.
C4_EveryBreakSeals ==
  [][AtPageBreak => Len(pages') = Len(pages) + 1]_vars

\* C4 as amended: every pagebreak except one that is the first block of the
\* stream seals exactly one page at its position: the page holds the blocks
\* accumulated since the previous seal (none after another pagebreak), the
\* pages sealed before are unchanged and the accumulator is empty
\* afterwards; a pagebreak that is the first block seals no page.
C4_BreakSealsUnlessFirst ==
  [][AtPageBreak =>
       IF i = 1
         THEN pages' = pages
         ELSE /\ pages' = Append(pages, ElementsToHtml(current_page_elements))
              /\ current_page_elements' = << >>
              /\ current_height' = 0]_vars

\* Witness of C4: a pagebreak that was not the first block has just sealed
\* a page, here the last block of the document sealing the page of the
\* content before it.
C4_Witness ==
  /\ pc = "paginate"
  /\ i = Len(elements) + 1
  /\ i > 2
  /\ IsBreak(i - 1)
  /\ IsContent(i - 2)
  /\ Len(pages) >= 1
  /\ Holds(pages[Len(pages)], i - 2)
  /\ current_page_elements = << >>


\* ----- C5 ----------------------------------------------------------------
\* The blocks a page holds.
BlocksOn(page) == { k \in 1..Len(elements) : IsContent(k) /\ Holds(page, k) }

\* The sum of the heights, as estimated at classification, of the blocks
\* with index at most n that a page holds.
RECURSIVE HeightOn(_, _)
HeightOn(page, n) ==
  IF n = 0 THEN 0
  ELSE (IF n \in BlocksOn(page) THEN elements[n].height ELSE 0)
         + HeightOn(page, n - 1)

EstimatedHeight(page) == HeightOn(page, Len(elements))

NoOverflow(out) ==
  \A j \in 1..Len(out) :
    \/ Cardinality(BlocksOn(out[j])) = 1
    \/ EstimatedHeight(out[j]) <= content_height

\* C5: overflow invariant.  Every page returned by paginate, and every page
\* returned by optimize_pages for it, has a total estimated block height of
\* at most the content height, unless it consists of exactly one block.
C5_NoOverflow ==
  /\ pc = "paginated" => NoOverflow(pages)
  /\ pc = "done" => NoOverflow(current_pages)

\* ----- C6 ----------------------------------------------------------------
Oversized(k) == IsContent(k) /\ elements[k].height > content_height

\* C6: oversized block isolation.  In the pages returned by paginate a
\* block taller than the content height is on exactly one page, that page
\* holds only this block, the blocks before it are on earlier pages, the
\* blocks after it on later pages, and a neighbouring page is empty only
\* if a pagebreak made it (it is marked forced).
C6_OversizedAlone ==
  pc = "paginated" =>
    \A k \in 1..Len(elements) :
      Oversized(k) =>
        /\ Cardinality(PagesHolding(pages, k)) = 1
        /\ LET j == PageOf(pages, k)
           IN /\ StripNL(pages[j]) = << elements[k].content >>
              /\ \A a \in 1..(k - 1) :
                   IsContent(a) =>
                     /\ PagesHolding(pages, a) # {}
                     /\ PageOf(pages, a) < j
              /\ \A b \in (k + 1)..Len(elements) :
                   IsContent(b) =>
                     /\ PagesHolding(pages, b) # {}
                     /\ PageOf(pages, b) > j
              /\ \A n \in {j - 1, j + 1} \cap (1..Len(pages)) :
                   pages[n] = << >> => (n - 1) \in forced_break_pages

\* Witness of C6: an oversized block between two content blocks, and one
\* that is the first block of the document, each alone on its page.
C6_Witness ==
  /\ pc = "paginated"
  /\ Len(elements) = 4
  /\ \A k \in 1..4 : IsContent(k)
  /\ Oversized(1) /\ ~Oversized(2) /\ Oversized(3) /\ ~Oversized(4)
  /\ Len(pages) = 4
  /\ StripNL(pages[3]) = << elements[3].content >>


\* ----- C7 ----------------------------------------------------------------
IsHeading(k) == elements[k].type = "heading"

\* Block k is the last block of the page of `out` that holds it.
LastOnPage(out, k) ==
  /\ PagesHolding(out, k) # {}
  /\ LET page == StripNL(out[PageOf(out, k)])
     IN page[Len(page)] = elements[k].content

\* Block k is the first block of the page of `out` that holds it.
FirstOnPage(out, k) ==
  /\ PagesHolding(out, k) # {}
  /\ StripNL(out[PageOf(out, k)])[1] = elements[k].content

\* The estimated height of the page of block k up to and including block k.
HeightThrough(out, k) == HeightOn(out[PageOf(out, k)], k)

\* A heading that is not the first block of its page has at least
\* HEADING_KEEP_WITH px left below it.
HeadingsKeepSpace(out) ==
  \A k \in 1..Len(elements) :
    (IsHeading(k) /\ ~FirstOnPage(out, k)) =>
      HeightThrough(out, k) + HeadingKeepWith(page_size_name) <= content_height

\* C7 as stated: in the output of paginate no heading is the last block of
\* a page when a content block follows it immediately in the stream, and a
\* heading with fewer than HEADING_KEEP_WITH px below it starts the next page.
C7_NoOrphanHeading ==
  pc = "paginated" =>
    /\ \A k \in 1..(Len(elements) - 1) :
         (IsHeading(k) /\ IsContent(k + 1)) => ~LastOnPage(pages, k)
    /\ HeadingsKeepSpace(pages)

\* C7 as amended: in the output of paginate a heading is the last block of
\* a page, with a content block following it immediately in the stream,
\* only when that block did not fit below it (page height + block height >
\* content height) or is itself a heading pushed on by the look-ahead; and
\* a heading that would have fewer than HEADING_KEEP_WITH px left below it
\* on a non-empty page starts the next page instead.
C7_OrphanOnlyWhenNextDoesNotFit ==
  pc = "paginated" =>
    /\ \A k \in 1..(Len(elements) - 1) :
         (IsHeading(k) /\ IsContent(k + 1) /\ LastOnPage(pages, k)) =>
           \/ HeightThrough(pages, k) + elements[k + 1].height > content_height
           \/ /\ IsHeading(k + 1)
              /\ HeightThrough(pages, k) + elements[k + 1].height
                   + HeadingKeepWith(page_size_name) > content_height
    /\ HeadingsKeepSpace(pages)

\* Witness of C7: a heading that would have fitted on the current page, but
\* with less than HEADING_KEEP_WITH px below it, starts the next page.
C7_Witness ==
  /\ pc = "paginated"
  /\ \E k \in 2..Len(elements) :
       /\ IsHeading(k)
       /\ IsContent(k - 1)
       /\ FirstOnPage(pages, k)
       /\ PageOf(pages, k) = PageOf(pages, k - 1) + 1
       /\ EstimatedHeight(pages[PageOf(pages, k - 1)]) + elements[k].height
            <= content_height


\* ----- C8 ----------------------------------------------------------------
\* Pages idx and idx + 1 (0-based) of the argument of optimize_pages are
\* both non-forced, each below the merge threshold, and fit together.
MergeCandidates(idx) ==
  /\ idx >= 0
  /\ idx + 1 < Len(pages)
  /\ idx \notin forced_break_pages
  /\ (idx + 1) \notin forced_break_pages
  /\ ~IsBlank(pages[idx + 1])
  /\ ~IsBlank(pages[idx + 2])
  /\ PageHeight(pages[idx + 1], page_size_name) * 100
       < content_height * MergeThreshold(page_size_name)
  /\ PageHeight(pages[idx + 2], page_size_name) * 100
       < content_height * MergeThreshold(page_size_name)
  /\ PageHeight(pages[idx + 1], page_size_name)
       + PageHeight(pages[idx + 2], page_size_name) <= content_height

\* The output has one page that is pages idx and idx + 1 combined.
MergedInOutput(idx) ==
  \E k \in 1..Len(current_pages) :
    /\ k <= Len(merged_from)
    /\ merged_from[k] = << idx, idx + 1 >>
    /\ current_pages[k] = pages[idx + 1] \o pages[idx + 2]

\* C8 as stated: every pair of adjacent non-forced pages, each below the
\* merge threshold and fitting together, is one combined page in the output
\* of optimize_pages.
C8_EveryCandidatePairMerged ==
  pc = "done" =>
    \A idx \in 0..(Len(pages) - 2) : MergeCandidates(idx) => MergedInOutput(idx)

\* C8 as amended: every such pair is one combined page in the output,
\* unless its first page was already merged into the page before it in
\* this pass.
C8_CandidatePairMergedUnlessUsed ==
  pc = "done" =>
    \A idx \in 0..(Len(pages) - 2) :
      (MergeCandidates(idx) /\ ~MergedInOutput(idx - 1)) => MergedInOutput(idx)

\* Witness of C8: optimize_pages was given a pair of candidate pages and
\* returned them as one page.
C8_Witness ==
  /\ pc = "done"
  /\ Len(pages) >= 2
  /\ MergeCandidates(0)
  /\ MergedInOutput(0)
  /\ Len(current_pages) = Len(pages) - 1

\* ----- C9 ----------------------------------------------------------------
\* C9: forced pages pass through untouched.  Every page whose index is in
\* forced_break_pages is a page of its own in the output of optimize_pages,
\* with unchanged content, empty or not, and the output keeps the order of
\* the input pages.
C9_ForcedPagesUntouched ==
  pc = "done" =>
    /\ \A idx \in forced_break_pages :
         \E k \in 1..Len(current_pages) :
           /\ k <= Len(merged_from)
           /\ merged_from[k] = << idx >>
           /\ current_pages[k] = pages[idx + 1]
    /\ \A k, m \in 1..Len(merged_from) :
         k < m => merged_from[k][Len(merged_from[k])] < merged_from[m][1]

\* Witness of C9: a forced page that is empty, between two content pages,
\* came through optimize_pages, as did a forced page with content.
C9_Witness ==
  /\ pc = "done"
  /\ Len(pages) >= 3
  /\ {0, 1} \subseteq forced_break_pages
  /\ pages[1] # << >>
  /\ pages[2] = << >>
  /\ Len(current_pages) >= 3
  /\ current_pages[2] = << >>

\* ----- C10 ---------------------------------------------------------------
\* C10: no data loss on merge.  Every page in the output of optimize_pages
\* is either one input page unchanged or exactly the content of page i
\* followed by the content of page i+1.
C10_MergeIsConcatenation ==
  pc = "done" =>
    /\ Len(merged_from) = Len(current_pages)
    /\ \A k \in 1..Len(current_pages) :
         \/ /\ Len(merged_from[k]) = 1
            /\ current_pages[k] = pages[merged_from[k][1] + 1]
         \/ /\ Len(merged_from[k]) = 2
            /\ merged_from[k][2] = merged_from[k][1] + 1
            /\ current_pages[k] =
                 pages[merged_from[k][1] + 1] \o pages[merged_from[k][2] + 1]

\* Witness of C10: a merge happened in a list of three pages, and the page
\* that took no part in it is in the output as it was.
C10_Witness ==
  /\ pc = "done"
  /\ Len(pages) = 3
  /\ Len(current_pages) = 2
  /\ merged_from = << << 0, 1 >>, << 2 >> >>
  /\ current_pages[1] = pages[1] \o pages[2]
  /\ current_pages[2] = pages[3]

\* ----- C11 ---------------------------------------------------------------
\* C11: at least one page for non-empty input.  When the document parses to
\* at least one block, paginate returns at least one page, and
\* optimize_pages on that result returns at least one page.
C11_NonEmptyInputYieldsPage ==
  elements # << >> =>
    /\ pc \in {"paginated", "optimize", "done"} => Len(pages) >= 1
    /\ pc = "done" => Len(current_pages) >= 1

\* Witness of C11: a document whose every block is a pagebreak marker left
\* the loop of paginate without a page, and one page was returned by both
\* passes.
C11_Witness ==
  /\ pc = "done"
  /\ elements # << >>
  /\ \A k \in 1..Len(elements) : IsBreak(k)
  /\ Len(pages) = 1
  /\ Len(current_pages) = 1

\* ----- C12 ---------------------------------------------------------------
\* The loop of paginate as a function of its inputs: the remaining
\* elements, the pages sealed so far, the current page, its height, the
\* count of consecutive pagebreaks, the forced marks, and the preset.
RECURSIVE PaginateLoop(_, _, _, _, _, _, _)
PaginateLoop(els, pgs, cur, height, breaks, forced, size) ==
  IF els = << >> THEN [pages |-> SealIfAny(pgs, cur), forced |-> forced]
  ELSE LET element == Head(els)
       IN IF element.type = "pagebreak"
            THEN LET seal == BreakSeals(cur, breaks + 1)
                     pgs1 == IF seal = "content"
                               THEN Append(pgs, ElementsToHtml(cur))
                             ELSE IF seal = "empty" THEN Append(pgs, << >>)
                             ELSE pgs
                 IN PaginateLoop(Tail(els), pgs1,
                                 IF seal = "content" THEN << >> ELSE cur,
                                 IF seal = "content" THEN 0 ELSE height,
                                 breaks + 1,
                                 IF seal = "none" THEN forced
                                 ELSE MarkForced(forced, pgs1),
                                 size)
          ELSE LET look == /\ HeadingNeedsBreak(element, height, size)
                           /\ cur # << >>
                   pgs1 == IF look THEN Append(pgs, ElementsToHtml(cur)) ELSE pgs
                   cur1 == IF look THEN << >> ELSE cur
                   height1 == IF look THEN 0 ELSE height
               IN IF Overflows(height1, element.height, size)
                    THEN PaginateLoop(Tail(els), SealIfAny(pgs1, cur1),
                                      << element >>, element.height, 0, forced,
                                      size)
                    ELSE PaginateLoop(Tail(els), pgs1, Append(cur1, element),
                                      height1 + element.height, 0, forced, size)

\* paginate(doc) on a paginator constructed with the preset `size` and never
\* used before: the pages returned and the forced marks left.
PaginateFresh(doc, size) ==
  LET els == ParseHtmlToElements(doc, ContentWidth(size))
  IN IF els = << >>
       THEN [pages |-> IF doc # << >> THEN << doc >> ELSE << >>,
             forced |-> {}]
       ELSE LET r == PaginateLoop(els, << >>, << >>, 0, 0, {}, size)
            IN [pages |-> PagesOrOriginal(r.pages, doc), forced |-> r.forced]

\* C12: determinism and history independence.  Whatever documents were
\* paginated before and whatever presets were active, paginate on given
\* HTML with a given active preset returns the pages, and leaves the
\* forced_break_pages, that a fresh paginator with that preset gives.
C12_HistoryIndependent ==
  pc = "paginated" =>
    /\ pages = PaginateFresh(html_content, page_size_name).pages
    /\ forced_break_pages = PaginateFresh(html_content, page_size_name).forced

\* Witness of C12: paginate has returned for a document without any marker,
\* in a session whose previous document had left forced marks.
C12_Witness ==
  /\ pc = "paginated"
  /\ stale_marks
  /\ Len(pages) >= 2
  /\ \A k \in 1..Len(elements) : IsContent(k)
  /\ forced_break_pages = {}

\* ----- C13 ---------------------------------------------------------------
\* The loop of optimize_pages ran and kept no page: every page of a list of
\* two or more was dropped.
AllEliminated ==
  /\ pc = "done"
  /\ Len(pages) > 1
  /\ merged_from = << >>

\* C13 as the specification states it: if the optimization pass would
\* eliminate every page of its input, optimize_pages returns the original
\* unoptimized page list.
C13_FallbackReturnsOriginal ==
  AllEliminated => current_pages = pages

\* C13: if the optimization pass eliminates every page of its input,
\* optimize_pages returns a list of exactly one page, the empty string.
C13_FallbackReturnsOneEmptyPage ==
  AllEliminated => current_pages = << << >> >>

\* Witness of C13: every page of a list of two or more was dropped, one of
\* them a page of whitespace, and one empty page came back.
C13_Witness ==
  /\ AllEliminated
  /\ \E k \in 1..Len(pages) : pages[k] # << >>
  /\ current_pages = << << >> >>

\* ----- C14 ---------------------------------------------------------------
\* C14: unknown preset falls back to medium.  After set_page_size, or the
\* constructor, was given a name that is none of small, medium, large, the
\* active configuration is exactly the medium preset: its page size, its
\* paddings, its content box and HEADING_KEEP_WITH = 150, whatever preset
\* was active before.
C14_UnknownPresetIsMedium ==
  size_arg \notin {"small", "medium", "large"} =>
    /\ page_size_name = "medium"
    /\ PAGE_SIZES[page_size_name].width = 1080
    /\ PAGE_SIZES[page_size_name].height = 1440
    /\ PAGE_SIZES[page_size_name].padding_top = 45
    /\ PAGE_SIZES[page_size_name].padding_bottom = 70
    /\ PAGE_SIZES[page_size_name].padding_sides = 40
    /\ content_width = 1000
    /\ content_height = 1325
    /\ HEADING_KEEP_WITH = 150

\* Witness of C14: the name last given to the paginator is unknown, the
\* paginator has paginated a document before, and the next document is
\* being paginated under the medium configuration.
C14_Witness ==
  /\ size_arg = "huge"
  /\ stale_marks
  /\ pc = "paginate"
  /\ page_size_name = "medium"

\* ----- C15 ---------------------------------------------------------------
\* C15: termination.  Every call of paginate returns, and every iteration
\* of its loop examines the block at index i and moves to index i + 1,
\* whatever the block is, so that the loop ends with each block examined
\* exactly once; every call of optimize_pages returns, and every iteration
\* of its loop moves to a later page, so that each page is visited at most
\* once.
C15_Terminates ==
  /\ (pc = "paginate") ~> (pc = "paginated")
  /\ (pc = "paginated") ~> (pc = "done")
  /\ [][ /\ (pc = "paginate" /\ pc' = "paginate") =>
              (i <= Len(elements) /\ i' = i + 1)
         /\ (pc = "paginate" /\ pc' = "paginated") => i = Len(elements) + 1
         /\ (pc = "optimize" /\ pc' = "optimize") =>
              (opt_i < Len(pages) /\ opt_i' \in {opt_i + 1, opt_i + 2})
         /\ (pc = "optimize" /\ pc' = "done") =>
              opt_i \in {Len(pages), Len(pages) + 1} ]_vars

\* Witness of C15: both loops have ended on a document that holds a
\* pagebreak, a heading and an oversized block, and optimize_pages has
\* merged two pages.
C15_Witness ==
  /\ pc = "done"
  /\ \E k \in 1..Len(elements) : IsBreak(k)
  /\ \E k \in 1..Len(elements) : IsHeading(k)
  /\ \E k \in 1..Len(elements) : Oversized(k)
  /\ i = Len(elements) + 1
  /\ opt_i >= Len(pages)
  /\ \E k \in 1..Len(merged_from) : Len(merged_from[k]) = 2

\* ----- C16 ---------------------------------------------------------------
\* C16: empty input.  For an input that classifies to zero blocks (empty or
\* whitespace only) paginate returns the empty page list or a single page,
\* the input itself, and optimize_pages returns that list unchanged.
C16_EmptyInput ==
  (pc \in {"paginated", "optimize", "done"} /\ elements = << >>) =>
    /\ IsBlank(html_content)
    /\ pages = IF html_content = << >> THEN << >> ELSE << html_content >>
    /\ pc # "optimize"
    /\ pc = "done" => current_pages = pages

\* Witness of C16: a document of whitespace only went through both passes
\* and came back as one page.
C16_Witness ==
  /\ pc = "done"
  /\ elements = << >>
  /\ html_content # << >>
  /\ current_pages = << html_content >>

\* ----- C17 ---------------------------------------------------------------
\* The marker divs in a run of nodes, at any depth.
RECURSIVE MarkersIn(_)
MarkersIn(nodes) ==
  IF nodes = << >> THEN 0
  ELSE (IF IsPagebreakMarkerDiv(Head(nodes)) THEN 1 ELSE 0)
         + MarkersIn(Head(nodes).kids) + MarkersIn(Tail(nodes))

\* The elements of type pagebreak.
BreaksIn(els) == Cardinality({ k \in 1..Len(els) : els[k].type = "pagebreak" })

\* C17: page-break marker detection.  Every div that carries the class
\* pagebreak-marker or the attribute data-pagebreak="true" is classified as
\* exactly one PageBreak block wherever it occurs in the tree, and nothing
\* else is classified as PageBreak: the classifier emits as many PageBreak
\* blocks as the document has marker divs.
C17_EveryMarkerIsOnePageBreak ==
  pc = "parsed" => BreaksIn(elements) = MarkersIn(html_content)

\* ----- C18 ---------------------------------------------------------------
\* The document is one paragraph without images that has a marker among its
\* children.
IsMarkedParagraph(doc) ==
  /\ Len(doc) = 1
  /\ doc[1].tag = "p"
  /\ CountTag(doc[1], "img") = 0
  /\ \E k \in 1..Len(doc[1].kids) : IsPagebreakMarkerDiv(doc[1].kids[k])

\* What the elements hold, in order: the children inside each paragraph
\* emitted, and Empty for each PageBreak.
PiecesOf(els) ==
  Concat([k \in 1..Len(els) |->
            IF els[k].type = "pagebreak" THEN << Empty >>
            ELSE els[k].content.kids])

\* C18: nested marker in a paragraph.  For a paragraph without images that
\* has markers among its children, the classifier emits the content before
\* the first marker, a PageBreak, the content between markers, and the
\* content after the last marker, each exactly once and in document order.
C18_MarkedParagraphKeepsContent ==
  (pc = "parsed" /\ IsMarkedParagraph(html_content)) =>
    PiecesOf(elements) =
      [k \in 1..Len(html_content[1].kids) |->
         IF IsPagebreakMarkerDiv(html_content[1].kids[k]) THEN Empty
         ELSE html_content[1].kids[k]]

\* ----- C19 ---------------------------------------------------------------
\* The length of the run of pagebreaks that the elements start with.
LeadingBreaks ==
  Cardinality({ k \in 1..Len(elements) : \A m \in 1..k : IsBreak(m) })

\* C19: leading page break.  A PageBreak that is the first block of the
\* document seals no page and marks nothing as forced; [PageBreak, A]
\* yields exactly one page holding A; a leading run of k PageBreaks
\* followed by content yields exactly k - 1 empty pages before the first
\* content page.
C19_LeadingPageBreak ==
  LeadingBreaks >= 1 =>
    /\ (pc = "paginate" /\ i = 2) =>
         (pages = << >> /\ forced_break_pages = {})
    /\ (pc = "paginate" /\ i >= 2 /\ i <= LeadingBreaks + 1) =>
         /\ pages = [j \in 1..(i - 2) |-> << >>]
         /\ forced_break_pages = 0..(i - 3)
    /\ (pc = "paginated" /\ LeadingBreaks < Len(elements)) =>
         /\ Len(pages) >= LeadingBreaks
         /\ \A j \in 1..(LeadingBreaks - 1) : pages[j] = << >>
         /\ Holds(pages[LeadingBreaks], LeadingBreaks + 1)
    /\ (pc = "paginated" /\ LeadingBreaks = 1 /\ Len(elements) = 2) =>
         pages = << << elements[2].content >> >>

\* Witness of C19: paginate has returned for a document of three pagebreaks
\* and a block: two empty pages, then the page of the block.
C19_Witness ==
  /\ pc = "paginated"
  /\ LeadingBreaks = 3
  /\ Len(elements) = 4
  /\ pages = << << >>, << >>, << elements[4].content >> >>
  /\ forced_break_pages = {0, 1}

\* ----- C20 ---------------------------------------------------------------
\* The first block of page j of `out`.
FirstBlockOf(out, j) ==
  CHOOSE k \in BlocksOn(out[j]) : \A m \in BlocksOn(out[j]) : k <= m

\* Every page of `out` but the last is full: the first block of the next
\* page would not have fitted on it.
PagesPacked(out) ==
  \A j \in 1..(Len(out) - 1) :
    EstimatedHeight(out[j]) + elements[FirstBlockOf(out, j + 1)].height
      > content_height

\* All blocks have the same height, and exactly two of them fit on a page.
ExactlyTwoFit ==
  /\ elements # << >>
  /\ \A k \in 1..Len(elements) : elements[k].height = elements[1].height
  /\ 2 * elements[1].height <= content_height
  /\ 3 * elements[1].height > content_height

\* C20: greedy overflow boundary.  For a stream without PageBreaks and
\* without headings, paginate adds a block to the blocks of the current page
\* if and only if current height + block height <= content height, and
\* otherwise seals the page and starts the next one with the block (a block
\* met on an empty page starts that page); hence every page except the last
\* satisfies height(page) + height(first block of the next page) > content
\* height, and with blocks of equal height of which exactly 2 fit, every
\* page but the last holds exactly 2 blocks.
C20_GreedyBoundary ==
  /\ [](pc = "paginate" => current_height = SumHeights(current_page_elements))
  /\ [](pc = "paginated" =>
          /\ PagesPacked(pages)
          /\ ExactlyTwoFit =>
               \A j \in 1..(Len(pages) - 1) :
                 Cardinality(BlocksOn(pages[j])) = 2)
  /\ [][ (pc = "paginate" /\ i' = i + 1) =>
           IF current_page_elements = << >>
             THEN /\ current_page_elements' = << elements[i] >>
                  /\ pages' = pages
           ELSE IF current_height + elements[i].height <= content_height
             THEN /\ current_page_elements' =
                       Append(current_page_elements, elements[i])
                  /\ pages' = pages
           ELSE /\ current_page_elements' = << elements[i] >>
                /\ pages' =
                     Append(pages, ElementsToHtml(current_page_elements)) ]_vars

\* Witness of C20: six code blocks of the same height, of which exactly two
\* fit on a page, came out as three pages of two.
C20_Witness ==
  /\ pc = "paginated"
  /\ ExactlyTwoFit
  /\ Len(elements) = 6
  /\ Len(pages) = 3
  /\ \A j \in 1..3 : Cardinality(BlocksOn(pages[j])) = 2

\* ----- C21 ---------------------------------------------------------------
\* The space paginate keeps below a heading, as the claim gives it.
KeepBelowHeading ==
  IF page_size_name = "small" THEN 100
  ELSE IF page_size_name = "medium" THEN 150
  ELSE 200

\* C21: heading look-ahead.  When paginate processes a heading, it seals
\* the current page before placing the heading if and only if current
\* height + heading height + HEADING_KEEP_WITH > content height and the
\* current page is non-empty (HEADING_KEEP_WITH being 100, 150, 200 for
\* small, medium, large); the heading is then the first block of the next
\* page, and the page sealed this way is not marked forced.
C21_HeadingLookAhead ==
  [][ (pc = "paginate" /\ pc' = "paginate" /\ i' = i + 1 /\ IsHeading(i)) =>
        IF /\ current_height + elements[i].height + KeepBelowHeading
                > content_height
           /\ current_page_elements # << >>
          THEN /\ pages' = Append(pages, ElementsToHtml(current_page_elements))
               /\ current_page_elements' = << elements[i] >>
               /\ forced_break_pages' = forced_break_pages
               /\ (Len(pages') - 1) \notin forced_break_pages'
          ELSE /\ pages' = pages
               /\ current_page_elements' =
                    Append(current_page_elements, elements[i]) ]_vars

\* Witness of C21: under the large preset a heading met at height 1503 was
\* moved to the next page (1503 + 110 + 200 > 1775, while 1503 + 110 + 150
\* is not), and the page sealed for it is not forced.
C21_Witness ==
  /\ pc = "paginate"
  /\ page_size_name = "large"
  /\ i = 5
  /\ IsHeading(4)
  /\ \A k \in 1..3 : IsContent(k)
  /\ Len(pages) = 1
  /\ current_page_elements = << elements[4] >>
  /\ forced_break_pages = {}

\* ----- C22 ---------------------------------------------------------------
\* C22: no splitting.  A block that does not fit on the current page is
\* moved whole to a new page, whatever its kind, a paragraph taller than 30%
\* of the content height included: the current page is sealed as it is and
\* the block starts the next one with its full height; and every block's
\* HTML is, entire, on exactly one page of paginate's result.
C22_NoSplitting ==
  /\ [](pc = "paginated" =>
          \A k \in 1..Len(elements) :
            IsContent(k) => Cardinality(PagesHolding(pages, k)) = 1)
  /\ [][ (/\ pc = "paginate" /\ pc' = "paginate" /\ i' = i + 1
          /\ IsContent(i)
          /\ current_page_elements # << >>
          /\ current_height + elements[i].height > content_height) =>
           /\ pages' = Append(pages, ElementsToHtml(current_page_elements))
           /\ current_page_elements' = << elements[i] >>
           /\ current_height' = elements[i].height ]_vars

\* Witness of C22: under the small preset two paragraphs, each taller than
\* 30% of the content height, did not fit on one page, and each is whole on
\* a page of its own.
C22_Witness ==
  /\ pc = "paginated"
  /\ Len(elements) = 2
  /\ \A k \in 1..2 : /\ elements[k].type = "paragraph"
                     /\ elements[k].height * 10 > content_height * 3
  /\ elements[1].height + elements[2].height > content_height
  /\ pages = << << elements[1].content >>, << elements[2].content >> >>

\* ----- C23 ---------------------------------------------------------------
\* The height optimize_pages takes for page idx (0-based) of its input.
InputHeight(idx) == PageHeight(pages[idx + 1], page_size_name)

\* C23: merge preconditions.  optimize_pages merges page i into page i+1
\* only if page i is not forced, page i is not the last page, height(page
\* i) < 0.35 x content height under the small preset or < 0.40 x content
\* height under any other preset, page i+1 is not forced and not empty, and
\* height(page i) + height(page i+1) <= content height.
C23_MergePreconditions ==
  pc = "done" =>
    \A k \in 1..Len(merged_from) :
      Len(merged_from[k]) = 2 =>
        LET idx == merged_from[k][1]
        IN /\ idx \notin forced_break_pages
           /\ idx < Len(pages) - 1
           /\ IF page_size_name = "small"
                THEN InputHeight(idx) * 100 < content_height * 35
                ELSE InputHeight(idx) * 100 < content_height * 40
           /\ (idx + 1) \notin forced_break_pages
           /\ ~IsBlank(pages[idx + 2])
           /\ InputHeight(idx) + InputHeight(idx + 1) <= content_height

\* Witness of C23: under the small preset a page whose height lies between
\* 35% and 40% of the content height was kept apart from the short page
\* after it, and that short page was merged with the page after it.
C23_Witness ==
  /\ pc = "done"
  /\ page_size_name = "small"
  /\ Len(pages) = 3
  /\ forced_break_pages = {}
  /\ InputHeight(0) * 100 >= content_height * 35
  /\ InputHeight(0) * 100 < content_height * 40
  /\ InputHeight(0) + InputHeight(1) <= content_height
  /\ merged_from = << << 0 >>, << 1, 2 >> >>

\* ----- C24 ---------------------------------------------------------------
\* Page j (1-based) of `out` was sealed by a pagebreak: it is an empty page,
\* or its last block is followed at once by a pagebreak.
SealedByBreak(out, j) ==
  IF BlocksOn(out[j]) = {} THEN out[j] = << >>
  ELSE LET last == CHOOSE k \in BlocksOn(out[j]) :
                     \A m \in BlocksOn(out[j]) : m <= k
       IN last < Len(elements) /\ IsBreak(last + 1)

\* C24: forced marking.  After paginate, a page index is in
\* forced_break_pages if and only if that page was sealed by a PageBreak (a
\* content page closed by a break, or an empty page created by a
\* consecutive break); pages sealed by the heading look-ahead, by overflow
\* or as the final remainder are not marked, and every marked index is an
\* index of the returned page list.
C24_ForcedIffSealedByBreak ==
  pc = "paginated" =>
    /\ forced_break_pages \subseteq 0..(Len(pages) - 1)
    /\ \A j \in 1..Len(pages) :
         (j - 1) \in forced_break_pages <=> SealedByBreak(pages, j)

\* Witness of C24: three pages, the first sealed by overflow and not
\* marked, the second sealed by a pagebreak and marked, the third an empty
\* page made by the pagebreak after it and marked.
C24_Witness ==
  /\ pc = "paginated"
  /\ Len(elements) = 4
  /\ IsContent(1) /\ IsContent(2) /\ IsBreak(3) /\ IsBreak(4)
  /\ Len(pages) = 3
  /\ pages[3] = << >>
  /\ forced_break_pages = {1, 2}

\* ----- C25 ---------------------------------------------------------------
\* The page has no content but whitespace.
OnlyWhitespace(page) == \A m \in 1..Len(page) : page[m].tag = "nl"

\* Input page idx (0-based) is in the output, alone or merged.
KeptInOutput(idx) ==
  \E k \in 1..Len(merged_from) :
    \E m \in 1..Len(merged_from[k]) : merged_from[k][m] = idx

\* Every blank page that is not forced is dropped, and no page with content
\* is.
BlankPagesDropped ==
  \A idx \in 0..(Len(pages) - 1) :
    IF OnlyWhitespace(pages[idx + 1])
      THEN idx \notin forced_break_pages => ~KeptInOutput(idx)
      ELSE KeptInOutput(idx)

\* C25 as the specification states it: every page given to optimize_pages
\* whose content is empty or whitespace-only and whose index is not forced
\* is absent from the output, for every input list length (including a list
\* of one page), while no page with non-whitespace content is ever dropped.
C25_BlankPagesDroppedAlways ==
  pc = "done" => BlankPagesDropped

\* C25: in a list of two or more pages, every page whose content is empty
\* or whitespace-only and whose index is not forced is absent from the
\* output, while no page with non-whitespace content is ever dropped; a
\* list of at most one page is returned as it is, blank or not.
C25_BlankPagesDroppedFromLists ==
  pc = "done" =>
    IF Len(pages) >= 2 THEN BlankPagesDropped ELSE current_pages = pages

\* Witness of C25: of three pages without forced marks the middle one, a
\* page of whitespace, was dropped and the other two came through.
C25_Witness ==
  /\ pc = "done"
  /\ Len(pages) = 3
  /\ forced_break_pages = {}
  /\ pages[2] # << >>
  /\ OnlyWhitespace(pages[2])
  /\ ~KeptInOutput(1)
  /\ Len(current_pages) = 2

\* ----- C26 ---------------------------------------------------------------
\* C26: merged at most once.  In one pass of optimize_pages every output
\* page is made of one input page or of two consecutive input pages, in
\* that order; the input pages used go strictly upward from one output page
\* to the next, so that a page produced by a merge is never merged again
\* with the page after it and every input page contributes to at most one
\* output page.
C26_MergedAtMostOnce ==
  (pc = "done" /\ merged_from # << >>) =>
    /\ Len(current_pages) = Len(merged_from)
    /\ \A k \in 1..Len(merged_from) :
         \/ /\ Len(merged_from[k]) = 1
            /\ current_pages[k] = pages[merged_from[k][1] + 1]
         \/ /\ Len(merged_from[k]) = 2
            /\ merged_from[k][2] = merged_from[k][1] + 1
            /\ current_pages[k] =
                 pages[merged_from[k][1] + 1] \o pages[merged_from[k][2] + 1]
    /\ \A k \in 1..(Len(merged_from) - 1) :
         merged_from[k][Len(merged_from[k])] < merged_from[k + 1][1]
    /\ \A idx \in 0..(Len(pages) - 1) :
         Cardinality({ k \in 1..Len(merged_from) :
                         \E m \in 1..Len(merged_from[k]) :
                           merged_from[k][m] = idx }) <= 1

\* Witness of C26: three short pages that would fit on one page together;
\* the first two were merged, and the third was not merged into the result.
C26_Witness ==
  /\ pc = "done"
  /\ Len(pages) = 3
  /\ forced_break_pages = {}
  /\ InputHeight(0) + InputHeight(1) + InputHeight(2) <= content_height
  /\ (InputHeight(0) + InputHeight(1)) * 100 < content_height * 35
  /\ ~OnlyWhitespace(pages[3])
  /\ merged_from = << << 0, 1 >>, << 2 >> >>
  /\ current_pages = << pages[1] \o pages[2], pages[3] >>

\* The img tags in the HTML of a block.
ImagesIn(e) ==
  IF e.type = "pagebreak" THEN 0
  ELSE CountTag(e.content, "img") + (IF e.content.tag = "img" THEN 1 ELSE 0)

\* The height of a block's kind for its text, rows, items or lines, the
\* images left aside.
BaseHeight(e, cw) ==
  LET node == e.content
      chars == TextLength(node)
  IN CASE e.type = "image" -> ELEMENT_HEIGHTS.margin_bottom
       [] e.type = "heading" ->
            ELEMENT_HEIGHTS[node.tag] + ELEMENT_HEIGHTS.margin_bottom
       [] e.type = "paragraph_with_images" ->
            CalculateParagraphHeight(chars, cw)
       [] e.type = "list" ->
            CountTag(node, "li") * ELEMENT_HEIGHTS.li
              + ELEMENT_HEIGHTS.margin_bottom
       [] e.type = "code" ->
            ELEMENT_HEIGHTS.code_block
              + (node.n + 1) * ELEMENT_HEIGHTS.code_line
              + ELEMENT_HEIGHTS.margin_bottom
       [] e.type = "blockquote" -> CalculateBlockquoteHeight(chars, cw)
       [] e.type = "table" ->
            CountTag(node, "th") * ELEMENT_HEIGHTS.table_header
              + (CountTag(node, "tr") - CountTag(node, "th"))
                  * ELEMENT_HEIGHTS.table_row
              + ELEMENT_HEIGHTS.margin_bottom
       [] OTHER -> CalculateTextHeight(chars, cw)

\* C27: every block that parse_html_to_elements returns and whose HTML
\* contains k >= 1 img tags, whatever its kind, is non-splittable and has
\* the height of its text or kind plus 350 px per image.
C27_ImageBlocks ==
  pc = "parsed" =>
    \A k \in 1..Len(elements) :
      ImagesIn(elements[k]) >= 1 =>
        /\ ~elements[k].can_break
        /\ elements[k].height =
             BaseHeight(elements[k], content_width)
               + ImagesIn(elements[k]) * IMG_HEIGHT

\* A table with text and two or more images in its cells was classified:
\* as one block that is not splittable and counts every image.
C27_Witness ==
  /\ pc = "parsed"
  /\ html_content[1].tag = "table"
  /\ CountTag(html_content[1], "tr") > 5
  /\ Len(elements) = 1
  /\ ImagesIn(elements[1]) >= 2
  /\ BaseHeight(elements[1], content_width) > 0
  /\ ~elements[1].can_break
  /\ elements[1].height =
       BaseHeight(elements[1], content_width)
         + ImagesIn(elements[1]) * IMG_HEIGHT

\* The rows of a table whose cells are th cells.
HeaderRows(node) ==
  Cardinality({ r \in 1..Len(node.kids) :
                  /\ node.kids[r].tag = "tr"
                  /\ \E c \in 1..Len(node.kids[r].kids) :
                       node.kids[r].kids[c].tag = "th" })

\* The rows of a table that are not header rows.
BodyRows(node) == CountTag(node, "tr") - HeaderRows(node)

\* C28: the height of every table is 45 px for each header row, 40 px for
\* each body row and the 20 px margin, whatever the number of columns.
C28_TableHeight ==
  pc = "parsed" =>
    \A k \in 1..Len(elements) :
      elements[k].type = "table" =>
        elements[k].height =
          HeaderRows(elements[k].content) * ELEMENT_HEIGHTS.table_header
            + BodyRows(elements[k].content) * ELEMENT_HEIGHTS.table_row
            + ELEMENT_HEIGHTS.margin_bottom

\* The blocks of the nodes of a sequence, one node after the other.
RECURSIVE BlocksOfChildren(_, _)
BlocksOfChildren(nodes, cw) ==
  IF nodes = << >> THEN << >>
  ELSE FlattenParseTree(Head(nodes), cw) \o BlocksOfChildren(Tail(nodes), cw)

\* A container element that is not a pagebreak marker.
IsContainer(node) == node.tag \in SectionTags /\ ~IsPagebreakMarkerDiv(node)

HasDirectImage(node) ==
  \E k \in 1..Len(node.kids) : node.kids[k].tag = "img"

\* The nodes whose HTML is the content of a block.
HtmlOf(e) ==
  IF e.content.tag = "[document]" THEN e.content.kids ELSE << e.content >>

\* What the container rule gives for a container.
ContainerRule(node, blocks, cw) ==
  IF HasDirectImage(node)
    THEN /\ Len(blocks) = 1
         /\ ~blocks[1].can_break
         /\ HtmlOf(blocks[1]) = << node >>
    ELSE blocks = BlocksOfChildren(node.kids, cw)

\* C29: of a document that is one container, the blocks are one
\* non-splittable block of the whole container when an img is its direct
\* child, and otherwise the blocks of its children in document order.
C29_ContainerRule ==
  (pc = "parsed" /\ Len(html_content) = 1 /\ IsContainer(html_content[1])) =>
    ContainerRule(html_content[1], elements, content_width)

\* The page_exported signals of the run, in order.
Exported == SelectSeq(signals, LAMBDA sg : sg.sig = "page_exported")

\* The run ended by a failure or by cancel_export.
RunStopped == \E k \in 1..Len(signals) : signals[k] = Finished(FALSE)

\* The run ended with finished(True).
RunSucceeded == \E k \in 1..Len(signals) : signals[k] = Finished(TRUE)

\* The k-th image saved shows page k of the list, under page number k, and
\* finished(True) is the last signal, emitted once, after every page.
ExportedInOrder ==
  (runs > 0 /\ ~RunStopped) =>
    /\ Len(Exported) <= Len(pages_to_export)
    /\ \A k \in 1..Len(Exported) :
         /\ Exported[k].num = k
         /\ Exported[k].image = [content |-> pages_to_export[k],
                                 page_num |-> k,
                                 total_pages |-> Len(pages_to_export)]
    /\ \A k \in 1..Len(signals) :
         signals[k] = Finished(TRUE) =>
           /\ k = Len(signals)
           /\ Len(Exported) = Len(pages_to_export)

\* C30: an export run over N pages that is neither cancelled nor fails saves
\* pages 1..N in increasing order, once each, empty pages included, and then
\* emits finished(True) once, after the last page was saved.
C30_ExportEveryPageInOrder ==
  /\ []ExportedInOrder
  /\ (runs > 0 /\ errors = << >>) ~> (RunSucceeded \/ RunStopped)

C30_Witness ==
  /\ RunSucceeded
  /\ Len(pages_to_export) >= 2
  /\ Len(Exported) = Len(pages_to_export)
  /\ \E k \in 1..Len(pages_to_export) : pages_to_export[k] = << >>

\* Each page of paginate's output is re-estimated by optimize_pages at the
\* sum of the heights its blocks were given at classification.
HeightsAgree ==
  \A j \in 1..Len(pages) :
    PageHeight(pages[j], page_size_name) = EstimatedHeight(pages[j])

\* Page j (1-based) of paginate's output was sealed because the heading that
\* opens the next page, which would have fitted, had too little room below.
SealedByLookAhead(j) ==
  /\ j < Len(pages)
  /\ (j - 1) \notin forced_break_pages
  /\ BlocksOn(pages[j + 1]) # {}
  /\ IsHeading(FirstBlockOf(pages, j + 1))
  /\ EstimatedHeight(pages[j]) + elements[FirstBlockOf(pages, j + 1)].height
       <= content_height

\* Page j (1-based) of paginate's output was sealed because the block that
\* opens the next page did not fit.
SealedByOverflow(j) ==
  /\ j < Len(pages)
  /\ (j - 1) \notin forced_break_pages
  /\ BlocksOn(pages[j + 1]) # {}
  /\ EstimatedHeight(pages[j]) + elements[FirstBlockOf(pages, j + 1)].height
       > content_height

\* C32: when optimize_pages re-estimates every page of the preceding
\* paginate call at the sum of its blocks' heights, it returns the same
\* pages: no merge, no page dropped; a page sealed by overflow does not fit
\* with its successor, a page sealed by the heading look-ahead is not below
\* the merge threshold.
C32_MergeIsIdentity ==
  (pc = "done" /\ HeightsAgree) =>
    /\ current_pages = pages
    /\ \A k \in 1..Len(merged_from) : merged_from[k] = << k - 1 >>
    /\ \A j \in 1..Len(pages) :
         /\ SealedByOverflow(j) =>
              ~MergeFits(InputHeight(j - 1), InputHeight(j), page_size_name)
         /\ SealedByLookAhead(j) => ~IsShort(InputHeight(j - 1), page_size_name)

\* Witness of C32: a short page sealed by overflow stands before a page that
\* is not forced, and optimize_pages has returned.
C32_Witness ==
  /\ pc = "done"
  /\ HeightsAgree
  /\ \E j \in 1..Len(pages) :
       /\ SealedByOverflow(j)
       /\ j \notin forced_break_pages
       /\ IsShort(InputHeight(j - 1), page_size_name)

\* This step of paginate appends a page that holds nothing.
AppendsEmptyPage ==
  /\ Len(pages') = Len(pages) + 1
  /\ pages'[Len(pages')] = << >>

\* The element at i is the second or a later pagebreak of a run of
\* consecutive pagebreaks.
LaterBreakOfRun ==
  /\ pc = "paginate"
  /\ i <= Len(elements)
  /\ i > 1
  /\ IsBreak(i)
  /\ IsBreak(i - 1)

\* Every page without a forced mark holds at least one block.
UnforcedPagesHoldBlocks ==
  \A j \in 1..Len(pages) :
    (j - 1) \notin forced_break_pages => BlocksOn(pages[j]) # {}

\* C33: no accidental empty pages.  For an input that classifies to at
\* least one block, every page paginate returns without a forced mark
\* holds at least one block, and a step of paginate appends an
\* empty page only on the second or a later pagebreak of a run of
\* consecutive pagebreaks: never in the heading look-ahead, the overflow
\* branch or the final seal.
C33_NoAccidentalEmptyPages ==
  /\ []((pc = "paginated" /\ elements # << >>) => UnforcedPagesHoldBlocks)
  /\ [][AppendsEmptyPage => LaterBreakOfRun]_vars

\* The list `new` is the list `old`, or `old` with one page appended.
AppendsAtMostOne(old, new) ==
  \/ new = old
  \/ /\ Len(new) = Len(old) + 1
     /\ SubSeq(new, 1, Len(old)) = old

\* The marks `new` are the marks `old`, or `old` with the index of the page
\* this step appended.
MarksOnlyAppended(old, new) ==
  \/ new = old
  \/ /\ Len(pages') = Len(pages) + 1
     /\ new = old \cup {Len(pages') - 1}

\* C34: sealed pages are immutable during partitioning.  A step of
\* paginate's loop, the final seal included, changes the sealed list only
\* by appending one page at its end and forced_break_pages only by adding
\* the index of the page just appended; optimize_pages changes neither
\* forced_break_pages nor the page configuration nor its input list.
C34_SealedPagesImmutable ==
  [][ /\ pc = "paginate" =>
           /\ AppendsAtMostOne(pages, pages')
           /\ MarksOnlyAppended(forced_break_pages, forced_break_pages')
           /\ forced_break_pages \subseteq forced_break_pages'
      /\ pc \in {"paginated", "optimize"} =>
           UNCHANGED << forced_break_pages, page_size_name, pages >> ]_vars

\* Witness of C34: optimize_pages has merged pages of a list that paginate
\* built of at least three pages, one of them with a forced mark and one
\* without.
C34_Witness ==
  /\ pc = "done"
  /\ Len(pages) >= 3
  /\ forced_break_pages # {}
  /\ \E j \in 1..Len(pages) : (j - 1) \notin forced_break_pages
  /\ current_pages # pages

\* C35: a cancelled export is inert.  A timer callback that fires while no
\* export runs saves nothing, emits no page_exported and leaves
\* current_export_index alone; at most one timer of the exporter is pending
\* at any time, also when export_pages is called again before a callback of
\* the cancelled run has fired; and the run under way exports each of its
\* pages once, in order, under the right page number.
C35_CancelledExportInert ==
  /\ [][ (~is_exporting /\ runs' = runs) =>
           (current_export_index' = current_export_index /\ Exported' = Exported)
       ]_vars
  /\ [](BagCardinality(timers) <= 1)
  /\ []ExportedInOrder

====
